---- MODULE Spec2Model ----
(***************************************************************************)
(* Verification model of the nile-api_demo dashboard front-end.            *)
(*                                                                         *)
(* Spec     : a view that resolves the 'Nile' credential and runs the      *)
(*            retrying fetch loop against the external inventory API       *)
(*            (app/sites/page.tsx, app/client-details/page.tsx and the     *)
(*            revised client view, unnamed/part_007).                      *)
(* SpecApi  : the backend service layer (app/services/api.ts,              *)
(*            app/services/apiKeyApi.ts, app/services/auth.ts).            *)
(***************************************************************************)
EXTENDS Integers, Sequences, FiniteSets, TLC

\* ------------------------------------------------------------------ bounds
\* longest credential list the view is mounted with
MaxKeys == 2
\* the submit events a run of the form may hold
MaxSubmits == 3
\* longest device list a response holds
MaxItems == 2
\* the runs of the useFetch effect a run of the model may hold
MaxRuns == 3
\* the API-key operations a run of the model may start
MaxOps == 3
\* the clicks on group headers a run of the device list may hold
MaxToggles == 2
\* the times React calls the grouping calculation again with the same inputs
MaxRecalcs == 1
\* the pages the external API may report for a tenant's client list
MaxPages == 2
\* the page requests a run of the paginated view may issue
MaxRequests == 3

\* ------------------------------------------------------- program constants
MAX_RETRIES == 5

\* ------------------------------------------------------------------ strings
\* Strings the code inspects character by character are sequences of
\* one-character strings.
Str_Nile == <<"N", "i", "l", "e">>
Str_nile == <<"n", "i", "l", "e">>
Str_NILEbak == <<"N", "I", "L", "E", "-", "b">>
Str_Foo == <<"F", "o", "o">>

\* String.prototype.toLowerCase on one character
LowerChar(c) ==
  CASE c = "N" -> "n"
    [] c = "I" -> "i"
    [] c = "L" -> "l"
    [] c = "E" -> "e"
    [] c = "F" -> "f"
    [] OTHER -> c

ToLowerCase(s) == [i \in 1..Len(s) |-> LowerChar(s[i])]

\* String.prototype.includes
Includes(s, sub) ==
  \E i \in 0..(Len(s) - Len(sub)) :
    \A j \in 1..Len(sub) : s[i + j] = sub[j]

\* ------------------------------------------------------------- credentials
Services == {Str_Nile, Str_NILEbak, Str_Foo}
NoTenant == ""
Tenants == {NoTenant, "t1"}

\* an ApiKey as far as the views read it (service label, optional tenant id)
ApiKeyRecords == [service : Services, tenantId : Tenants]

KeyLists == UNION {[1..n -> ApiKeyRecords] : n \in 0..MaxKeys}

\* Array.prototype.find: the index of the first entry whose test is true, 0 for
\* undefined; tests[i] is the predicate's value on entry i
FirstTrue(tests) ==
  IF \E i \in 1..Len(tests) : tests[i]
  THEN CHOOSE i \in 1..Len(tests) : tests[i] /\ \A j \in 1..(i - 1) : ~tests[j]
  ELSE 0

IsExactNile(k) == k.service = Str_Nile
IsLikeNile(k) == Includes(ToLowerCase(k.service), Str_nile)
IsExactOrLikeNile(k) == IsExactNile(k) \/ IsLikeNile(k)
HasTenant(k) == k.tenantId # NoTenant

FindExactNile(keys) == FirstTrue([i \in 1..Len(keys) |-> IsExactNile(keys[i])])
FindLikeNile(keys) == FirstTrue([i \in 1..Len(keys) |-> IsLikeNile(keys[i])])
FindExactOrLikeNile(keys) == FirstTrue([i \in 1..Len(keys) |-> IsExactOrLikeNile(keys[i])])
FindWithTenant(keys) == FirstTrue([i \in 1..Len(keys) |-> HasTenant(keys[i])])

\* the three-step selection of app/sites/page.tsx
ResolveTwoStep(keys) ==
  LET exact == FindExactNile(keys)
      like == IF exact = 0 THEN FindLikeNile(keys) ELSE exact
  IN IF like = 0 /\ Len(keys) > 0 THEN 1 ELSE like

\* the single-predicate selection of the revised client view
ResolveCombined(keys) ==
  LET hit == FindExactOrLikeNile(keys)
  IN IF hit = 0 /\ Len(keys) > 0 THEN 1 ELSE hit

\* --------------------------------------------------------------- call sites
CallSites == {"sites", "clientDetails", "clients"}

\* the revised client view also retries HTTP 400
Retries400(s) == s = "clients"
\* the views that first derive a tenant id from the credential list
HasTenantEffect(s) == s \in {"clientDetails", "clients"}

ResolveNileApiKey(s, keys) ==
  IF s = "clients" THEN ResolveCombined(keys) ELSE ResolveTwoStep(keys)

\* ------------------------------------------------------------------- errors
\* An Error object: its name and its message (the text with the values the
\* template literal interpolates)
Err(name, text, status, retries) ==
  [name |-> name, text |-> text, status |-> status, retries |-> retries, reason |-> ""]
\* an Error whose message interpolates response.statusText
ErrReason(name, text, reason) ==
  [name |-> name, text |-> text, status |-> 0, retries |-> 0, reason |-> reason]
NoErr == Err("", "", 0, 0)
\* the message string a view stores: err.message
Message(e) ==
  [text |-> e.text, status |-> e.status, retries |-> e.retries, reason |-> e.reason]
NoMessage == Message(NoErr)

\* the error thrown when the retryable status persists past the ceiling
ExhaustedError(s, status) ==
  IF Retries400(s)
  THEN Err("Error", "Request failed with status after retries", status, MAX_RETRIES)
  ELSE Err("Error", "Authentication failed after retries", 0, MAX_RETRIES)
HttpError(status) == Err("Error", "HTTP error! status", status, 0)
\* what fetch rejects with on a network-level failure
NetworkError == Err("TypeError", "Failed to fetch", 0, 0)
JsonError == Err("SyntaxError", "Unexpected token in JSON", 0, 0)

NoKeyMessage(s) ==
  IF s = "clients"
  THEN Message(Err("", "No suitable API key found", 0, 0))
  ELSE Message(Err("", "No API keys found", 0, 0))
NoTenantMessage == Message(Err("", "No tenant ID found in API keys", 0, 0))
NoKeysAvailableMessage == Message(Err("", "No API keys available", 0, 0))

\* ---------------------------------------------------------------- responses
Statuses == {200, 400, 401, 403, 500}
\* Response.ok
Ok(status) == status >= 200 /\ status <= 299

Null == <<"null">>
Body_One == <<"[", "7", "]">>
Body_Html == <<"<", "h", ">">>
Bodies == {Body_One, Body_Html}

\* Response.json on the bodies above: the parsed value, or a SyntaxError
ParseJson(b) ==
  IF b = <<"[", "]">> THEN [ok |-> TRUE, value |-> <<>>]
  ELSE IF Len(b) = 3 /\ b[1] = "[" /\ b[3] = "]" /\ b[2] \in {"1", "7"}
       THEN [ok |-> TRUE, value |-> <<b[2]>>]
       ELSE [ok |-> FALSE, value |-> Null]

\* what one invocation of fetch settles with
Outcome(network, status, body) == [network |-> network, status |-> status, body |-> body]
Outcomes ==
  {Outcome(TRUE, 0, <<>>)}
    \cup {Outcome(FALSE, st, <<>>) : st \in {x \in Statuses : ~Ok(x)}}
    \cup {Outcome(FALSE, st, b) : st \in {x \in Statuses : Ok(x)}, b \in Bodies}

NoResponse == Outcome(FALSE, 0, <<>>)

\* Math.random() in thousandths: a value of [0, 1)
RandomSamples == {0, 999}
\* mutation: the random factor spans 5 seconds instead of 4
BackoffMs_Wide(r) == r * 5 + 1000

\* (Math.random() * 4 + 1) * 1000, the setTimeout delay in milliseconds
BackoffMs(r) == r * 4 + 1000

\* ============================================================ view state
VARIABLES
  site,          \* which view is mounted
  apiKeys,       \* useAuth().apiKeys as the view sees it
  tenantId,      \* useState: tenant id derived from the credential list
  loading,       \* useState: rawDataLoading / loading / loadingClients
  error,         \* useState: rawDataError / error / clientsError (a message)
  rawData,       \* useState: rawSitesData / clientData / rawClientData
  pc,            \* where the view's asynchronous fetch function stands
  nileApiKey,    \* index of the credential chosen for the request, 0 if none
  retryCount,    \* let retryCount
  response,      \* what the last settled fetch gave (let response / the rejection)
  backoff,       \* const backoff of the running wait, in ms
  fetchCount,    \* history: invocations of fetch
  waitCount,     \* history: backoff timers that have elapsed
  count401,      \* history: responses with status 401
  count400,      \* history: responses with status 400
  countNetwork,  \* history: fetch rejections
  thrown         \* history: the error that escaped the retry loop

viewVars ==
  <<site, apiKeys, tenantId, loading, error, rawData, pc, nileApiKey, retryCount,
    response, backoff, fetchCount, waitCount, count401, count400, countNetwork,
    thrown>>

\* ==================================================== service-layer state
VARIABLES
  session,       \* the identity provider's current session token, "" if none
  storedKeys,    \* the credentials the backend store holds for the principal
  apiPc,         \* where the running service call stands
  call,          \* the running (or last) service call: operation and status
  headers,       \* the headers getApiHeaders has built so far
  requests,      \* history: the HTTP requests the call has sent
  result         \* how the call settled

apiVars == <<session, storedKeys, apiPc, call, headers, requests, result>>

\* ============================================= device-authorization form
VARIABLES
  deviceId,      \* searchParams.get('deviceId'), "" if the URL has none
  macAddress,    \* searchParams.get('macAddress'), "" if the URL has none
  values,        \* useState (useForm): the field values
  errors,        \* useState (useForm): the error messages, keyed by field name
  isSubmitting,  \* useState (useForm): the submitting flag
  rendered,      \* the state the last render closed its handlers over
  authorizing,   \* submissions whose submitForm awaits authorizeDevice
  returned,      \* submissions whose submitForm returned, finally still to run
  submits,       \* history: invocations of the handler of handleSubmit
  authorizeCalls,\* history: invocations of authorizeDevice
  navigated      \* history: router.push has been called

formVars ==
  <<deviceId, macAddress, values, errors, isSubmitting, rendered, authorizing,
    returned, submits, authorizeCalls, navigated>>

\* ====================================================== device list view
VARIABLES
  devices,       \* useFetch(fetchDevices).data, <<>> until it has resolved
  buildings,     \* useFetch(fetchBuildings).data, <<>> until it has resolved
  floors,        \* useFetch(fetchFloors).data, <<>> until it has resolved
  resolved,      \* which of the three responses have arrived
  failed,        \* which of the three requests have failed (useFetch error)
  groupedAndSortedData,  \* the value of the useMemo of the last render
  expandedBuildings,  \* useState: Map from building id to expanded
  expandedFloors,     \* useState: Map from "buildingId-floorId" to expanded
  effect,        \* where the effect that initialises the two Maps stands
  toggles,       \* history: clicks on group headers
  lastToggle,    \* history: the click that was the last step, if it was one
  recalcs        \* history: calculations repeated with unchanged inputs

groupVars ==
  <<devices, buildings, floors, resolved, failed, groupedAndSortedData,
    expandedBuildings, expandedFloors, effect, toggles, lastToggle, recalcs>>

\* ============================================================== useFetch
VARIABLES
  instance,      \* which mount of the component is current, 0 before the first
  mounted,       \* the component using the hook is mounted
  hookData,      \* useState: data
  hookLoading,   \* useState: loading
  hookError,     \* useState: error
  runs           \* the runs of the effect: their controller and their request

hookVars == <<instance, mounted, hookData, hookLoading, hookError, runs>>

\* ========================================================= API-key cache
VARIABLES
  cache,         \* useState (AuthContext): apiKeys
  renderedCache, \* the apiKeys the handlers of the last render closed over
  pendingOps,    \* the API-key operations awaiting the auth service
  nextId,        \* the id the backend assigns to the next created key
  opsStarted,    \* history: operations started
  lastOp,        \* history: the operation that settled last, and how
  isAuthenticated, \* useState (AuthContext): isAuthenticated
  userAttributes,  \* useState (AuthContext): userAttributes
  authFlow,      \* where the running handleSignIn stands
  signedOut      \* history: signed out, and no later sign-in has succeeded

authVars == <<isAuthenticated, userAttributes, authFlow, signedOut>>

cacheVars ==
  <<cache, renderedCache, pendingOps, nextId, opsStarted, lastOp, authVars>>

\* ============================================== paginated client details
VARIABLES
  pageTenantId,  \* useState (client-details): tenantId
  currentPage,   \* useState: currentPage
  totalPages,    \* useState: totalPages
  pageLoading,   \* useState: loading
  pageError,     \* useState: error
  clientData,    \* useState: clientData
  inFlight,      \* the fetchClientData calls that have not settled yet
  requestsIssued \* history: fetchClientData calls started

pageVars ==
  <<pageTenantId, currentPage, totalPages, pageLoading, pageError, clientData,
    inFlight, requestsIssued>>

\* the state of the hooks and contexts outside the raw views and the services
uiVars == <<formVars, groupVars, hookVars, cacheVars, pageVars>>

vars == <<viewVars, apiVars, uiVars>>

\* useState initial value of the loading flag
InitialLoading(s) == s # "sites"

\* the view is not mounted while the service layer is exercised on its own
ViewIdle ==
  /\ site = "sites"
  /\ apiKeys = <<>>
  /\ tenantId = NoTenant
  /\ loading = FALSE
  /\ error = NoMessage
  /\ rawData = Null
  /\ pc = "unmounted"
  /\ nileApiKey = 0
  /\ retryCount = 0
  /\ response = NoResponse
  /\ backoff = 0
  /\ fetchCount = 0
  /\ waitCount = 0
  /\ count401 = 0
  /\ count400 = 0
  /\ countNetwork = 0
  /\ thrown = NoErr

ViewInit ==
  /\ site \in CallSites
  /\ apiKeys \in KeyLists
  /\ tenantId = NoTenant
  /\ loading = InitialLoading(site)
  /\ error = NoMessage
  /\ rawData = Null
  /\ pc = "mount"
  /\ nileApiKey = 0
  /\ retryCount = 0
  /\ response = NoResponse
  /\ backoff = 0
  /\ fetchCount = 0
  /\ waitCount = 0
  /\ count401 = 0
  /\ count400 = 0
  /\ countNetwork = 0
  /\ thrown = NoErr

\* ------------------------------------------------------- the retry loop
\* while (retryCount <= MAX_RETRIES)
WhileCondition(rc) == rc <= MAX_RETRIES

\* if (retryCount > 0) await backoff
WaitsFirst(rc) == rc > 0

\* mutation: every client-error status is retried
IsRetryStatus_Any4xx(s, status) == status >= 400 /\ status <= 499

\* response.status === 401 (|| response.status === 400)
IsRetryStatus(s, status) == status = 401 \/ (Retries400(s) /\ status = 400)

\* mutation: the ceiling counts attempts instead of retries
MayRetry_CountsAttempts(rc) == rc < MAX_RETRIES

\* if (retryCount <= MAX_RETRIES) continue; after retryCount++ on a retry status
MayRetry(rc) == rc <= MAX_RETRIES

\* mutation: the network branch compares like the status branch
NetworkMayRetry_Inclusive(name, rc) == name = "TypeError" /\ rc <= MAX_RETRIES

\* fetchError.name === 'TypeError' && retryCount < MAX_RETRIES
NetworkMayRetry(name, rc) == name = "TypeError" /\ rc < MAX_RETRIES

Continue(rc) == [ctl |-> "continue", retryCount |-> rc, err |-> NoErr, data |-> Null]
Break(rc, data) == [ctl |-> "break", retryCount |-> rc, err |-> NoErr, data |-> data]
Throw(rc, e) == [ctl |-> "throw", retryCount |-> rc, err |-> e, data |-> Null]

\* the try block of one iteration, from the settled fetch on
TryBody(s, o, rc) ==
  IF o.network THEN Throw(rc, NetworkError)
  ELSE IF IsRetryStatus(s, o.status)
       THEN IF MayRetry(rc + 1)
            THEN Continue(rc + 1)
            ELSE Throw(rc + 1, ExhaustedError(s, o.status))
       ELSE IF ~Ok(o.status)
            THEN Throw(rc, HttpError(o.status))
            ELSE LET parsed == ParseJson(o.body)
                 IN IF parsed.ok THEN Break(rc, parsed.value) ELSE Throw(rc, JsonError)

\* the catch block of one iteration
CatchBlock(r) ==
  IF r.ctl = "throw" /\ NetworkMayRetry(r.err.name, r.retryCount)
  THEN Continue(r.retryCount + 1)
  ELSE r

\* the head of one iteration with the loop still running: the backoff wait is
\* started, or fetch is invoked at once
EnterIteration(rc, rnd) ==
  IF WaitsFirst(rc)
  THEN /\ backoff' = BackoffMs(rnd)
       /\ pc' = "waiting"
       /\ fetchCount' = fetchCount
  ELSE /\ backoff' = 0
       /\ pc' = "fetching"
       /\ fetchCount' = fetchCount + 1

\* fetchRawSitesData / fetchClientData up to its first await
StartFetch ==
  LET idx == ResolveNileApiKey(site, apiKeys)
  IN /\ nileApiKey' = idx
     /\ retryCount' = 0
     /\ IF idx = 0
        THEN /\ error' = NoKeyMessage(site)
             /\ loading' = FALSE
             /\ pc' = "done"
             /\ UNCHANGED <<fetchCount, backoff>>
        ELSE /\ error' = NoMessage
             /\ loading' = TRUE
             /\ IF WhileCondition(0)
                THEN \E rnd \in RandomSamples : EnterIteration(0, rnd)
                ELSE /\ pc' = "done"
                     /\ UNCHANGED <<fetchCount, backoff>>
     /\ UNCHANGED <<rawData, response, waitCount, count401, count400,
                    countNetwork, thrown>>

\* the tenant-id effect of the client views
TenantEffectError(s, keys) ==
  IF Len(keys) > 0
  THEN IF FindWithTenant(keys) # 0 THEN NoMessage ELSE NoTenantMessage
  ELSE IF s = "clients" THEN NoKeysAvailableMessage ELSE NoMessage

TenantEffectLoading(s, keys, was) ==
  IF Len(keys) > 0
  THEN IF FindWithTenant(keys) # 0 /\ s = "clientDetails" THEN was ELSE FALSE
  ELSE IF s = "clients" THEN FALSE ELSE was

\* first commit of the view: its effects run with the state of the first render
Mount ==
  /\ pc = "mount"
  /\ IF HasTenantEffect(site)
     THEN LET t == FindWithTenant(apiKeys)
          IN /\ tenantId' = IF t # 0 THEN apiKeys[t].tenantId ELSE NoTenant
             /\ error' = TenantEffectError(site, apiKeys)
             /\ loading' = TenantEffectLoading(site, apiKeys, loading)
             /\ pc' = IF t # 0 THEN "rerender" ELSE "idle"
             /\ UNCHANGED <<rawData, nileApiKey, retryCount, response, backoff,
                            fetchCount, waitCount, count401, count400, countNetwork,
                            thrown>>
     ELSE IF Len(apiKeys) > 0
          THEN StartFetch /\ UNCHANGED tenantId
          ELSE /\ pc' = "idle"
               /\ UNCHANGED <<tenantId, loading, error, rawData, nileApiKey, retryCount,
                              response, backoff, fetchCount, waitCount, count401,
                              count400, countNetwork, thrown>>
  /\ UNCHANGED <<site, apiKeys>>
  /\ UNCHANGED <<apiVars, uiVars>>

\* the commit after setTenantId: the fetch effect runs with the tenant id set
Rerender ==
  /\ pc = "rerender"
  /\ StartFetch
  /\ UNCHANGED <<site, apiKeys, tenantId>>
  /\ UNCHANGED <<apiVars, uiVars>>

\* the invoked fetch settles; the iteration runs up to its next await or end
FetchSettles ==
  /\ pc = "fetching"
  /\ \E o \in Outcomes, rnd \in RandomSamples :
       LET r == CatchBlock(TryBody(site, o, retryCount))
           again == r.ctl = "continue" /\ WhileCondition(r.retryCount)
       IN /\ retryCount' = r.retryCount
          /\ response' = o
          /\ count401' = IF ~o.network /\ o.status = 401 THEN count401 + 1 ELSE count401
          /\ count400' = IF ~o.network /\ o.status = 400 THEN count400 + 1 ELSE count400
          /\ countNetwork' = IF o.network THEN countNetwork + 1 ELSE countNetwork
          /\ IF again
             THEN EnterIteration(r.retryCount, rnd)
             ELSE /\ backoff' = 0
                  /\ pc' = "done"
                  /\ fetchCount' = fetchCount
          /\ rawData' = IF again \/ r.ctl = "throw" THEN rawData ELSE r.data
          /\ error' = IF r.ctl = "throw" THEN Message(r.err) ELSE error
          /\ thrown' = IF r.ctl = "throw" THEN r.err ELSE thrown
          /\ loading' = IF again THEN loading ELSE FALSE
  /\ UNCHANGED <<site, apiKeys, tenantId, nileApiKey, waitCount>>
  /\ UNCHANGED <<apiVars, uiVars>>

\* the backoff timer elapses and the next attempt is issued
TimerFires ==
  /\ pc = "waiting"
  /\ pc' = "fetching"
  /\ waitCount' = waitCount + 1
  /\ fetchCount' = fetchCount + 1
  /\ backoff' = 0
  /\ UNCHANGED <<site, apiKeys, tenantId, loading, error, rawData, nileApiKey,
                 retryCount, response, count401, count400, countNetwork, thrown>>
  /\ UNCHANGED <<apiVars, uiVars>>


\* ======================================================== service layer
NoSession == ""
Tokens == {"jwt"}

ApiOps ==
  {"fetchTree", "fetchSites", "fetchBuildings", "fetchFloors", "fetchSegments",
   "fetchDevices", "updateTenantData", "authorizeDevice"}
KeyOps ==
  {"fetchApiKeys", "getUserApiKeys", "createApiKey", "updateApiKey", "deleteApiKey"}

\* params.status values a caller may pass to authorizeDevice
StatusValues == {"Approved", "Denied", "Status", "Pending"}
NoStatus == ""

Method(op) ==
  CASE op = "authorizeDevice" -> "PATCH"
    [] op = "createApiKey" -> "POST"
    [] op = "updateApiKey" -> "PUT"
    [] op = "deleteApiKey" -> "DELETE"
    [] OTHER -> "GET"

\* API_ENDPOINTS / AUTH_API_URL / API_ENDPOINT
Endpoint(op) ==
  CASE op = "fetchTree" -> "/tree"
    [] op = "fetchSites" -> "/sites"
    [] op = "fetchBuildings" -> "/bldgs"
    [] op = "fetchFloors" -> "/floors"
    [] op = "fetchSegments" -> "/segments"
    [] op = "fetchDevices" -> "/devices"
    [] op = "updateTenantData" -> "/tenantupdate"
    [] op = "authorizeDevice" -> "/mabupdate"
    [] OTHER -> "/api-keys"

\* Response.statusText
StatusText(status) ==
  CASE status = 200 -> "OK"
    [] status = 400 -> "Bad Request"
    [] status = 401 -> "Unauthorized"
    [] status = 403 -> "Forbidden"
    [] status = 500 -> "Internal Server Error"
    [] OTHER -> ""

NotAuthenticatedError == Err("Error", "User is not authenticated", 0, 0)
InvalidStatusError == Err("Error", "Invalid status provided", 0, 0)
KeyOpFailedText(op) ==
  CASE op = "createApiKey" -> "Failed to create API key"
    [] op = "updateApiKey" -> "Failed to update API key"
    [] op = "deleteApiKey" -> "Failed to delete API key"
    [] OTHER -> "Failed to fetch API keys"
KeyOpFailedError(op, status) == ErrReason("Error", KeyOpFailedText(op), StatusText(status))

\* an HTTP request as the backend sees it
Request(method, endpoint, authorization, apiKey, state) ==
  [method |-> method, endpoint |-> endpoint, authorization |-> authorization,
   apiKey |-> apiKey, state |-> state]

NoHeaders == [authorization |-> NoSession, apiKey |-> 0, tenantId |-> NoTenant]

Pending == [state |-> "pending", err |-> NoErr, value |-> Null]
Resolved(v) == [state |-> "resolved", err |-> NoErr, value |-> v]
Rejected(e) == [state |-> "rejected", err |-> e, value |-> Null]
\* the value of a call that resolves with something other than a key list
Data == <<"data">>

ApiIdle ==
  /\ session = NoSession
  /\ storedKeys = <<>>
  /\ apiPc = "off"
  /\ call = [op |-> "", status |-> NoStatus]
  /\ headers = NoHeaders
  /\ requests = <<>>
  /\ result = Pending

ApiInit ==
  /\ session \in Tokens \cup {NoSession}
  /\ storedKeys \in KeyLists
  /\ apiPc = "idle"
  /\ call = [op |-> "", status |-> NoStatus]
  /\ headers = NoHeaders
  /\ requests = <<>>
  /\ result = Pending

\* mutation: the token is required, as in fetchApiKeys
HeaderAuthorization_Required(token) == token

\* getApiHeaders: headers['Authorization'] is set only if a token is available
HeaderAuthorization(token) == IF token # NoSession THEN token ELSE NoSession

\* getApiKeyAndTenantId over the list getUserApiKeys returned: the indexes of
\* the credential whose key and of the credential whose tenant id are sent
ApiKeyAndTenantId(keys) ==
  LET t == FindWithTenant(keys)
  IN IF t # 0 THEN [apiKey |-> t, tenantId |-> keys[t].tenantId]
     ELSE IF Len(keys) > 0 THEN [apiKey |-> 1, tenantId |-> NoTenant]
          ELSE [apiKey |-> 0, tenantId |-> NoTenant]

\* mutation: the status is passed through unmapped
LambdaState_PassThrough(status) == status

\* authorizeDevice: frontend status to Lambda state, "" when it throws
LambdaState(status) ==
  IF status = "Approved" THEN "AUTH_OK"
  ELSE IF status = "Denied" THEN "AUTH_DENIED"
       ELSE ""

\* a caller invokes one of the service functions
ApiCall ==
  /\ apiPc = "idle"
  /\ \E op \in ApiOps \cup KeyOps, st \in StatusValues :
       /\ (op # "authorizeDevice" => st = "Approved")
       /\ call' = [op |-> op, status |-> IF op = "authorizeDevice" THEN st ELSE NoStatus]
       /\ apiPc' = IF op \in ApiOps THEN "headersToken" ELSE "keyToken"
  /\ headers' = NoHeaders
  /\ requests' = <<>>
  /\ result' = Pending
  /\ UNCHANGED <<session, storedKeys>>
  /\ UNCHANGED <<viewVars, uiVars>>

\* getApiHeaders: getJwtToken settles; getUserApiKeys is entered
HeadersToken ==
  /\ apiPc = "headersToken"
  /\ headers' = [headers EXCEPT !.authorization = HeaderAuthorization(session)]
  /\ apiPc' = "keysToken"
  /\ UNCHANGED <<session, storedKeys, call, requests, result>>
  /\ UNCHANGED <<viewVars, uiVars>>

\* the rest of a function of api.ts once getApiHeaders has its credential list
FinishHeaders(keys, sent) ==
  LET kt == ApiKeyAndTenantId(keys)
      h == [headers EXCEPT !.apiKey = kt.apiKey, !.tenantId = kt.tenantId]
  IN /\ headers' = h
     /\ IF call.op = "authorizeDevice" /\ LambdaState(call.status) = ""
        THEN /\ result' = Rejected(InvalidStatusError)
             /\ requests' = sent
             /\ apiPc' = "idle"
        ELSE /\ requests' =
                  Append(sent,
                         Request(Method(call.op), Endpoint(call.op), h.authorization,
                                 h.apiKey,
                                 IF call.op = "authorizeDevice"
                                 THEN LambdaState(call.status) ELSE ""))
             /\ result' = Pending
             /\ apiPc' = "response"

\* fetchApiKeys inside getUserApiKeys inside getApiHeaders: getJwtToken settles
KeysToken ==
  /\ apiPc = "keysToken"
  /\ IF session = NoSession
     THEN FinishHeaders(<<>>, requests)
     ELSE /\ requests' =
               Append(requests, Request("GET", "/api-keys", session, 0, ""))
          /\ apiPc' = "keysResponse"
          /\ UNCHANGED <<headers, result>>
  /\ UNCHANGED <<session, storedKeys, call>>
  /\ UNCHANGED <<viewVars, uiVars>>

\* the credential store answers getApiHeaders' look-up
KeysResponse ==
  /\ apiPc = "keysResponse"
  /\ \E status \in Statuses :
       FinishHeaders(IF Ok(status) THEN storedKeys ELSE <<>>, requests)
  /\ UNCHANGED <<session, storedKeys, call>>
  /\ UNCHANGED <<viewVars, uiVars>>

\* the backend answers: handleResponse (updateTenantData tests response.ok the
\* same way and resolves with the response text)
Response ==
  /\ apiPc = "response"
  /\ \E status \in Statuses :
       result' = IF Ok(status) THEN Resolved(Data) ELSE Rejected(HttpError(status))
  /\ apiPc' = "idle"
  /\ UNCHANGED <<session, storedKeys, call, headers, requests>>
  /\ UNCHANGED <<viewVars, uiVars>>

\* what a rejection of the apiKeyApi function becomes for the caller of the
\* operation: getUserApiKeys catches it and returns []
KeyOpFailure(op, e) == IF op = "getUserApiKeys" THEN Resolved(<<>>) ELSE Rejected(e)

\* an API-key operation: getJwtToken settles
KeyOpToken ==
  /\ apiPc = "keyToken"
  /\ IF session = NoSession
     THEN /\ result' = KeyOpFailure(call.op, NotAuthenticatedError)
          /\ apiPc' = "idle"
          /\ UNCHANGED requests
     ELSE /\ requests' =
               Append(requests, Request(Method(call.op), Endpoint(call.op), session, 0, ""))
          /\ apiPc' = "keyResponse"
          /\ UNCHANGED result
  /\ UNCHANGED <<session, storedKeys, call, headers>>
  /\ UNCHANGED <<viewVars, uiVars>>

\* the credential store answers an API-key operation
KeyOpResponse ==
  /\ apiPc = "keyResponse"
  /\ \E status \in Statuses :
       result' =
         IF ~Ok(status) THEN KeyOpFailure(call.op, KeyOpFailedError(call.op, status))
         ELSE IF call.op \in {"fetchApiKeys", "getUserApiKeys"}
              THEN Resolved(storedKeys)
              ELSE Resolved(Data)
  /\ apiPc' = "idle"
  /\ UNCHANGED <<session, storedKeys, call, headers, requests>>
  /\ UNCHANGED <<viewVars, uiVars>>

\* the identity provider's session starts or ends
SignIn ==
  /\ apiPc # "off"
  /\ session = NoSession
  /\ session' \in Tokens
  /\ UNCHANGED <<storedKeys, apiPc, call, headers, requests, result>>
  /\ UNCHANGED <<viewVars, uiVars>>

SignOut ==
  /\ apiPc # "off"
  /\ session # NoSession
  /\ session' = NoSession
  /\ UNCHANGED <<storedKeys, apiPc, call, headers, requests, result>>
  /\ UNCHANGED <<viewVars, uiVars>>

\* ============================================================== useFetch
\* (src/app/hooks/useFetch.ts; every caller passes fetchFn only)
NoData == [run |-> 0]
\* the value fetchFn resolves with in the given run of the effect
Result(i) == [run |-> i]
NoFetchError == ""

\* what fetchFn can reject with: fetch fails with a TypeError, the service
\* functions throw an Error for a response that is not ok
Rejections ==
  {[isError |-> TRUE, name |-> "TypeError", message |-> "Failed to fetch"],
   [isError |-> TRUE, name |-> "Error", message |-> "HTTP error! status: 500"]}

\* the catch block: it returns before setError and setData for an AbortError
CatchSkips(err) == err.isError /\ err.name = "AbortError"
CatchError(err) ==
  IF err.isError THEN err.message ELSE "An unexpected error occurred"

\* const controller = new AbortController(); fetchFn() is called without the
\* signal, so the request does not observe the controller
NewRun(inst) == [instance |-> inst, aborted |-> FALSE, request |-> "pending"]

\* controller.abort() of the latest run: the cleanup of the effect
Cleanup(rs) == [rs EXCEPT ![Len(rs)].aborted = TRUE]

\* React drops the state updates of a component that is no longer mounted
Current(i) == mounted /\ runs[i].instance = instance

HookIdle ==
  /\ instance = 0
  /\ mounted = FALSE
  /\ hookData = NoData
  /\ hookLoading = TRUE
  /\ hookError = NoFetchError
  /\ runs = <<>>

\* the component mounts (again): fresh state, the effect runs and fetchData
\* goes as far as await fetchFn()
HookMount ==
  /\ ~mounted
  /\ Len(runs) < MaxRuns
  /\ instance' = instance + 1
  /\ mounted' = TRUE
  /\ hookData' = NoData
  /\ hookLoading' = TRUE
  /\ hookError' = NoFetchError
  /\ runs' = Append(runs, NewRun(instance + 1))
  /\ UNCHANGED <<viewVars, apiVars, formVars, groupVars, cacheVars, pageVars>>

\* React runs the effect again on the mounted component (the dependencies
\* changed, or a development build re-runs effects): cleanup, then the effect
EffectReruns ==
  /\ mounted
  /\ Len(runs) < MaxRuns
  /\ runs' = Append(Cleanup(runs), NewRun(instance))
  /\ hookLoading' = TRUE
  /\ hookError' = NoFetchError
  /\ UNCHANGED <<instance, mounted, hookData>>
  /\ UNCHANGED <<viewVars, apiVars, formVars, groupVars, cacheVars, pageVars>>

\* the component unmounts: cleanup
HookUnmount ==
  /\ mounted
  /\ mounted' = FALSE
  /\ runs' = Cleanup(runs)
  /\ UNCHANGED <<instance, hookData, hookLoading, hookError>>
  /\ UNCHANGED <<viewVars, apiVars, formVars, groupVars, cacheVars, pageVars>>

\* fetchFn resolves: setData(result), finally setLoading(false)
FetchResolves ==
  \E i \in 1..Len(runs) :
    /\ runs[i].request = "pending"
    /\ runs' = [runs EXCEPT ![i].request = "resolved"]
    /\ IF Current(i)
         THEN hookData' = Result(i) /\ hookLoading' = FALSE
         ELSE UNCHANGED <<hookData, hookLoading>>
    /\ UNCHANGED <<instance, mounted, hookError>>
    /\ UNCHANGED <<viewVars, apiVars, formVars, groupVars, cacheVars, pageVars>>

\* fetchFn rejects: the catch block, finally setLoading(false)
FetchRejects ==
  \E i \in 1..Len(runs) : \E err \in Rejections :
    /\ runs[i].request = "pending"
    /\ runs' = [runs EXCEPT ![i].request = "rejected"]
    /\ IF Current(i)
         THEN /\ IF CatchSkips(err) THEN UNCHANGED <<hookData, hookError>>
                 ELSE hookError' = CatchError(err) /\ hookData' = NoData
              /\ hookLoading' = FALSE
         ELSE UNCHANGED <<hookData, hookLoading, hookError>>
    /\ UNCHANGED <<instance, mounted>>
    /\ UNCHANGED <<viewVars, apiVars, formVars, groupVars, cacheVars, pageVars>>

HookNext ==
  HookMount \/ EffectReruns \/ HookUnmount \/ FetchResolves \/ FetchRejects

\* ========================================================= API-key cache
\* (src/app/contexts/AuthContext.tsx: apiKeys and the three key handlers)
KeyNames == {"a", "b"}
\* an ApiKey as far as the cache handlers read it: its id, and a name that
\* stands for the other fields
CachedKey(i, n) == [id |-> i, name |-> n]
NoKeyId == 0
NoOp ==
  [n |-> 0, kind |-> "", key |-> CachedKey(NoKeyId, ""), closure |-> <<>>,
   ok |-> FALSE, alone |-> FALSE]

\* the credentials loaded at sign-in
InitialCaches ==
  {<<>>, <<CachedKey(1, "a")>>, <<CachedKey(1, "a"), CachedKey(2, "b")>>}
FirstNewId == 3

\* [...apiKeys, newKey]
AfterAdd(keys, newKey) == keys \o <<newKey>>

\* apiKeys.map((key) => (key.id === apiKey.id ? updatedKey : key))
AfterUpdate(keys, updatedKey) ==
  [i \in DOMAIN keys |->
     IF keys[i].id = updatedKey.id THEN updatedKey ELSE keys[i]]

\* apiKeys.filter((key) => key.id !== id)
AfterDelete(keys, id) ==
  LET Keeps(key) == key.id # id IN SelectSeq(keys, Keeps)

\* the value the handler passes to setApiKeys, computed from the apiKeys of
\* the render that created the handler
NewCache(op, newKey) ==
  CASE op.kind = "add" -> AfterAdd(op.closure, newKey)
    [] op.kind = "update" -> AfterUpdate(op.closure, newKey)
    [] op.kind = "delete" -> AfterDelete(op.closure, op.key.id)

\* the key the auth service resolves with
ReturnedKey(op) ==
  IF op.kind = "add" THEN CachedKey(nextId, op.key.name) ELSE op.key

\* userAttributes: null, or the attributes of the signed-in principal
NoAttributes == "null"
Attributes == "attributes"
NoFlow == [at |-> "none", stale |-> FALSE]

CacheState(keys) ==
  /\ cache = keys
  /\ renderedCache = keys
  /\ pendingOps = {}
  /\ nextId = FirstNewId
  /\ opsStarted = 0
  /\ lastOp = NoOp
  /\ isAuthenticated = TRUE
  /\ userAttributes = Attributes
  /\ authFlow = NoFlow
  /\ signedOut = FALSE

CacheIdle == CacheState(<<>>)

CacheInit == \E keys \in InitialCaches : CacheState(keys)

\* a handler runs as far as its await of the auth service; solo records that
\* no other operation was in flight together with this one
StartOp(kind, key) ==
  /\ opsStarted < MaxOps
  /\ opsStarted' = opsStarted + 1
  /\ pendingOps' = {[op EXCEPT !.solo = FALSE] : op \in pendingOps} \cup
       {[n |-> opsStarted + 1, kind |-> kind, key |-> key,
         closure |-> renderedCache, solo |-> (pendingOps = {})]}
  /\ UNCHANGED <<cache, renderedCache, nextId, lastOp, authVars>>
  /\ UNCHANGED <<viewVars, apiVars, formVars, groupVars, hookVars, pageVars>>

HandleAddApiKey ==
  \E name \in KeyNames : StartOp("add", CachedKey(NoKeyId, name))

\* the key page edits and deletes the keys it shows
HandleUpdateApiKey ==
  \E i \in 1..Len(renderedCache) : \E name \in KeyNames :
    StartOp("update", CachedKey(renderedCache[i].id, name))

HandleDeleteApiKey ==
  \E i \in 1..Len(renderedCache) : StartOp("delete", renderedCache[i])

\* the auth service resolves: setApiKeys with the new list
OpSucceeds ==
  \E op \in pendingOps :
    /\ pendingOps' = pendingOps \ {op}
    /\ cache' = NewCache(op, ReturnedKey(op))
    /\ nextId' = IF op.kind = "add" THEN nextId + 1 ELSE nextId
    /\ lastOp' =
         [n |-> op.n, kind |-> op.kind, key |-> ReturnedKey(op),
          closure |-> op.closure, ok |-> TRUE,
          alone |-> op.solo]
    /\ UNCHANGED <<renderedCache, opsStarted, authVars>>
    /\ UNCHANGED <<viewVars, apiVars, formVars, groupVars, hookVars, pageVars>>

\* the auth service rejects: the handler logs and rethrows
OpFails ==
  \E op \in pendingOps :
    /\ pendingOps' = pendingOps \ {op}
    /\ lastOp' =
         [n |-> op.n, kind |-> op.kind, key |-> op.key,
          closure |-> op.closure, ok |-> FALSE,
          alone |-> op.solo]
    /\ UNCHANGED <<cache, renderedCache, nextId, opsStarted, authVars>>
    /\ UNCHANGED <<viewVars, apiVars, formVars, groupVars, hookVars, pageVars>>

\* the provider renders again: new handlers close over the current apiKeys
CacheRender ==
  /\ renderedCache # cache
  /\ renderedCache' = cache
  /\ UNCHANGED <<cache, pendingOps, nextId, opsStarted, lastOp, authVars>>
  /\ UNCHANGED <<viewVars, apiVars, formVars, groupVars, hookVars, pageVars>>

\* ------------------------------------------------ sign-out and sign-in
\* handleSignOut: authService.signOut(), then the four setters. What is in
\* flight stays in flight
HandleSignOut ==
  /\ isAuthenticated
  /\ isAuthenticated' = FALSE
  /\ userAttributes' = NoAttributes
  /\ cache' = <<>>
  /\ signedOut' = TRUE
  /\ authFlow' = [authFlow EXCEPT !.stale = (authFlow.at # "none")]
  /\ UNCHANGED <<renderedCache, pendingOps, nextId, opsStarted, lastOp>>
  /\ UNCHANGED <<viewVars, apiVars, formVars, groupVars, hookVars, pageVars>>

\* handleSignIn runs as far as await authService.signIn
HandleSignIn ==
  /\ ~isAuthenticated
  /\ authFlow.at = "none"
  /\ authFlow' = [at |-> "signIn", stale |-> FALSE]
  /\ UNCHANGED <<cache, renderedCache, pendingOps, nextId, opsStarted, lastOp,
                 isAuthenticated, userAttributes, signedOut>>
  /\ UNCHANGED <<viewVars, apiVars, formVars, groupVars, hookVars, pageVars>>

\* signIn and getCurrentUser resolve: setUser, setIsAuthenticated(true)
SignInResolves ==
  /\ authFlow.at = "signIn"
  /\ isAuthenticated' = TRUE
  /\ signedOut' = (authFlow.stale /\ signedOut)
  /\ authFlow' = [authFlow EXCEPT !.at = "attributes"]
  /\ UNCHANGED <<cache, renderedCache, pendingOps, nextId, opsStarted, lastOp,
                 userAttributes>>
  /\ UNCHANGED <<viewVars, apiVars, formVars, groupVars, hookVars, pageVars>>

\* getUserAttributes resolves: setUserAttributes(attributes)
AttributesResolve ==
  /\ authFlow.at = "attributes"
  /\ userAttributes' = Attributes
  /\ authFlow' = [authFlow EXCEPT !.at = "keys"]
  /\ UNCHANGED <<cache, renderedCache, pendingOps, nextId, opsStarted, lastOp,
                 isAuthenticated, signedOut>>
  /\ UNCHANGED <<viewVars, apiVars, formVars, groupVars, hookVars, pageVars>>

\* getUserApiKeys resolves (it never rejects): setApiKeys(keys)
KeysResolve ==
  /\ authFlow.at = "keys"
  /\ cache' = <<CachedKey(1, "a")>>
  /\ authFlow' = NoFlow
  /\ UNCHANGED <<renderedCache, pendingOps, nextId, opsStarted, lastOp,
                 isAuthenticated, userAttributes, signedOut>>
  /\ UNCHANGED <<viewVars, apiVars, formVars, groupVars, hookVars, pageVars>>

\* signIn, getCurrentUser or getUserAttributes rejects: the catch block logs
\* and rethrows, no setter runs
SignInRejects ==
  /\ authFlow.at \in {"signIn", "attributes"}
  /\ authFlow' = NoFlow
  /\ UNCHANGED <<cache, renderedCache, pendingOps, nextId, opsStarted, lastOp,
                 isAuthenticated, userAttributes, signedOut>>
  /\ UNCHANGED <<viewVars, apiVars, formVars, groupVars, hookVars, pageVars>>

CacheNext ==
  \/ HandleAddApiKey \/ HandleUpdateApiKey \/ HandleDeleteApiKey
  \/ OpSucceeds \/ OpFails \/ CacheRender

\* the provider with its sign-out and sign-in handlers
AuthNext ==
  \/ CacheNext
  \/ HandleSignOut \/ HandleSignIn \/ SignInResolves \/ AttributesResolve
  \/ KeysResolve \/ SignInRejects

\* ================================================ paginated client details
\* (src/app/client-details/page.tsx ClientDetailsContent)
PageTenants == {"t1", "t2"}

\* the body the external API returns for one page of a tenant's client list
ResponseData(tenant, page, pages) ==
  [tenant |-> tenant, pageNumber |-> page, totalPages |-> pages]
\* useState<any>(null)
NoClientData == ResponseData(NoTenant, 0, 0)

\* a fetchClientData call: the tenant id and the page its URL was built from
FetchClientData(n, tenant, page) == [n |-> n, tenant |-> tenant, page |-> page]

\* the component as it mounts, before the context has loaded any credential
PageIdle ==
  /\ pageTenantId = NoTenant
  /\ currentPage = 1
  /\ totalPages = 1
  /\ pageLoading = TRUE
  /\ pageError = NoMessage
  /\ clientData = NoClientData
  /\ inFlight = {}
  /\ requestsIssued = 0

\* the context hands the view a new, non-empty apiKeys array whose first
\* credential with a tenant id carries `found` (NoTenant when none does). The
\* tenant-id effect runs, then the fetch effect with the tenant id of this
\* render; when setTenantId changed the tenant id, the fetch effect runs once
\* more in the commit that follows.
ApiKeysChange ==
  \E found \in PageTenants \cup {NoTenant} :
    LET tenant == IF found # NoTenant THEN found ELSE pageTenantId
        first == IF pageTenantId # NoTenant
                 THEN {FetchClientData(requestsIssued + 1, pageTenantId, currentPage)}
                 ELSE {}
        second == IF tenant # pageTenantId
                  THEN {FetchClientData(requestsIssued + Cardinality(first) + 1, tenant,
                                currentPage)}
                  ELSE {}
        started == first \cup second
    IN /\ requestsIssued + Cardinality(started) <= MaxRequests
       /\ pageTenantId' = tenant
       /\ inFlight' = inFlight \cup started
       /\ requestsIssued' = requestsIssued + Cardinality(started)
       /\ pageLoading' = IF started # {} THEN TRUE
                         ELSE IF found = NoTenant THEN FALSE ELSE pageLoading
       /\ pageError' = IF started # {} THEN NoMessage
                       ELSE IF found = NoTenant THEN NoTenantMessage ELSE pageError
       /\ UNCHANGED <<currentPage, totalPages, clientData>>
       /\ UNCHANGED <<viewVars, apiVars, formVars, groupVars, hookVars, cacheVars>>

\* the pagination controls are rendered only past the two early returns
ControlsShown == ~pageLoading /\ pageError = NoMessage

\* a click on Previous or Next (each disabled at its end of the range), and
\* the fetch effect that the new currentPage triggers
HandlePageChange ==
  /\ ControlsShown
  /\ requestsIssued < MaxRequests
  /\ \E newPage \in {currentPage - 1, currentPage + 1} :
       /\ newPage = currentPage - 1 => currentPage # 1
       /\ newPage = currentPage + 1 => currentPage # totalPages
       /\ IF newPage >= 1 /\ newPage <= totalPages
          THEN /\ currentPage' = newPage
               /\ IF pageTenantId # NoTenant
                  THEN /\ inFlight' = inFlight \cup
                            {FetchClientData(requestsIssued + 1, pageTenantId, newPage)}
                       /\ requestsIssued' = requestsIssued + 1
                       /\ pageLoading' = TRUE
                       /\ pageError' = NoMessage
                  ELSE UNCHANGED <<inFlight, requestsIssued, pageLoading, pageError>>
               /\ UNCHANGED <<pageTenantId, totalPages, clientData>>
          ELSE UNCHANGED pageVars
  /\ UNCHANGED <<viewVars, apiVars, formVars, groupVars, hookVars, cacheVars>>

\* a fetchClientData call runs to its end: its retry loop left with a parsed
\* body (setTotalPages, setClientData) or threw (setError); finally
\* setLoading(false). Nothing tells the call whether a later one has started.
RequestSettles ==
  \E r \in inFlight :
    /\ inFlight' = inFlight \ {r}
    /\ \/ \E pages \in 1..MaxPages :
            /\ totalPages' = pages
            /\ clientData' = ResponseData(r.tenant, r.page, pages)
            /\ UNCHANGED pageError
       \/ /\ pageError' = Message(HttpError(500))
          /\ UNCHANGED <<totalPages, clientData>>
    /\ pageLoading' = FALSE
    /\ UNCHANGED <<pageTenantId, currentPage, requestsIssued>>
    /\ UNCHANGED <<viewVars, apiVars, formVars, groupVars, hookVars, cacheVars>>

PageNext == ApiKeysChange \/ HandlePageChange \/ RequestSettles

\* ============================================================= grouping
\* (src/app/devices/page.tsx groupedAndSortedData; the client list view of
\* src/unnamed/part_007 groups clientConfig the same way)
Digits == <<"0", "1", "2", "3", "4", "5", "6", "7", "8", "9">>
UpperCase ==
  <<"A", "B", "C", "D", "E", "F", "G", "H", "I", "J", "K", "L", "M", "N", "O",
    "P", "Q", "R", "S", "T", "U", "V", "W", "X", "Y", "Z">>
LowerCase ==
  <<"a", "b", "c", "d", "e", "f", "g", "h", "i", "j", "k", "l", "m", "n", "o",
    "p", "q", "r", "s", "t", "u", "v", "w", "x", "y", "z">>
IsIn(chars, c) == \E i \in 1..Len(chars) : chars[i] = c
IndexIn(chars, c) == CHOOSE i \in 1..Len(chars) : chars[i] = c

\* the UTF-16 code unit of a character
CodeUnit(c) ==
  IF c = " " THEN 32
  ELSE IF c = "-" THEN 45
  ELSE IF c = ":" THEN 58
  ELSE IF IsIn(Digits, c) THEN 47 + IndexIn(Digits, c)
  ELSE IF IsIn(UpperCase, c) THEN 64 + IndexIn(UpperCase, c)
  ELSE 96 + IndexIn(LowerCase, c)

\* the primary collation weight of a character under the root collation:
\* white space, punctuation, digits, then the letters without their case
PrimaryWeight(c) ==
  IF c = " " THEN 1
  ELSE IF c = "-" THEN 2
  ELSE IF c = ":" THEN 3
  ELSE IF IsIn(Digits, c) THEN 10 + IndexIn(Digits, c)
  ELSE IF IsIn(UpperCase, c) THEN 100 + IndexIn(UpperCase, c)
  ELSE 100 + IndexIn(LowerCase, c)

\* the case weight of a character: lower case before upper case
CaseWeight(c) == IF IsIn(UpperCase, c) THEN 1 ELSE 0

\* lexicographic comparison of two sequences of numbers: -1, 0 or 1
RECURSIVE CompareWeights(_, _)
CompareWeights(a, b) ==
  IF a = <<>> /\ b = <<>> THEN 0
  ELSE IF a = <<>> THEN -1
  ELSE IF b = <<>> THEN 1
  ELSE IF Head(a) < Head(b) THEN -1
  ELSE IF Head(a) > Head(b) THEN 1
  ELSE CompareWeights(Tail(a), Tail(b))

\* comparison of two strings by their code units (the < of the language)
CodeUnitCompare(a, b) ==
  CompareWeights([i \in 1..Len(a) |-> CodeUnit(a[i])],
                 [i \in 1..Len(b) |-> CodeUnit(b[i])])

\* String.prototype.localeCompare with the default options: the primary
\* weights decide; if they are all equal the case weights decide
LocaleCompare(a, b) ==
  LET primary == CompareWeights([i \in 1..Len(a) |-> PrimaryWeight(a[i])],
                                [i \in 1..Len(b) |-> PrimaryWeight(b[i])])
  IN IF primary # 0 THEN primary
     ELSE CompareWeights([i \in 1..Len(a) |-> CaseWeight(a[i])],
                         [i \in 1..Len(b) |-> CaseWeight(b[i])])

Str_UnknownBuilding ==
  <<"U", "n", "k", "n", "o", "w", "n", " ", "B", "u", "i", "l", "d", "i", "n",
    "g">>
Str_UnknownFloor ==
  <<"U", "n", "k", "n", "o", "w", "n", " ", "F", "l", "o", "o", "r">>
Str_Empty == <<>>
Str_B1 == <<"B", "1">>
Str_B2 == <<"B", "2">>
Str_F1 == <<"F", "1">>
Str_Alpha == <<"A", "l", "p", "h", "a">>
Str_Beta == <<"B", "e", "t", "a">>
Str_Main == <<"M", "a", "i", "n">>
Str_Zone == <<"Z", "o", "n", "e">>
Str_MacLower == <<"a", "1">>
Str_MacUpper == <<"B", "0">>
\* identifiers that hold the separator of the composite floor key
Str_B1F1 == <<"B", "1", "-", "F", "1">>
Str_F1F1 == <<"F", "1", "-", "F", "1">>

\* the fields of a NetworkDevice the grouping reads; id is the position of
\* the device in the response
BuildingIds == {Str_Empty, Str_B1, Str_B2}
FloorIds == {Str_Empty, Str_F1}
Macs == {Str_MacLower, Str_MacUpper}
DeviceFields == [macAddress : Macs, buildingid : BuildingIds, floorid : FloorIds]
Device(i, f) ==
  [id |-> i, macAddress |-> f.macAddress, buildingid |-> f.buildingid,
   floorid |-> f.floorid]
HyphenFields ==
  {[macAddress |-> Str_MacLower, buildingid |-> Str_B1, floorid |-> Str_F1],
   [macAddress |-> Str_MacLower, buildingid |-> Str_B1, floorid |-> Str_F1F1],
   [macAddress |-> Str_MacUpper, buildingid |-> Str_B1, floorid |-> Str_F1F1],
   [macAddress |-> Str_MacLower, buildingid |-> Str_B1F1, floorid |-> Str_F1]}
ListsOf(fields) ==
  UNION {{[i \in 1..n |-> Device(i, fs[i])] : fs \in [1..n -> fields]} :
           n \in 0..MaxItems}
DeviceLists == ListsOf(DeviceFields)

\* the responses of fetchBuildings and fetchFloors
BuildingLists ==
  {<<>>,
   <<[bldgid |-> Str_B1, name |-> Str_Alpha],
     [bldgid |-> Str_B2, name |-> Str_Beta]>>,
   <<[bldgid |-> Str_B1, name |-> Str_Beta],
     [bldgid |-> Str_B2, name |-> Str_Alpha]>>,
   <<[bldgid |-> Str_B1, name |-> Str_Main],
     [bldgid |-> Str_B2, name |-> Str_Main]>>,
   <<[bldgid |-> Str_B1, name |-> Str_Empty]>>}
FloorLists ==
  {<<>>, <<[floorid |-> Str_F1, name |-> Str_Zone]>>}

\* new Map filled by forEach(x => { if (x.id && x.name) map.set(x.id, x.name) })
RECURSIVE BuildingNameMap(_)
BuildingNameMap(list) ==
  IF list = <<>> THEN [k \in {} |-> Str_Empty]
  ELSE LET rest == BuildingNameMap(SubSeq(list, 1, Len(list) - 1))
           bldg == list[Len(list)]
       IN IF bldg.bldgid # Str_Empty /\ bldg.name # Str_Empty
            THEN [k \in DOMAIN rest \cup {bldg.bldgid} |->
                    IF k = bldg.bldgid THEN bldg.name ELSE rest[k]]
          ELSE rest

RECURSIVE FloorNameMap(_)
FloorNameMap(list) ==
  IF list = <<>> THEN [k \in {} |-> Str_Empty]
  ELSE LET rest == FloorNameMap(SubSeq(list, 1, Len(list) - 1))
           floor == list[Len(list)]
       IN IF floor.floorid # Str_Empty /\ floor.name # Str_Empty
            THEN [k \in DOMAIN rest \cup {floor.floorid} |->
                    IF k = floor.floorid THEN floor.name ELSE rest[k]]
          ELSE rest

\* nameMap.get(key) || key
ResolvedName(nameMap, key) ==
  IF key \in DOMAIN nameMap THEN nameMap[key] ELSE key

\* device.buildingid || 'Unknown Building', device.floorid || 'Unknown Floor'
BuildingKey_Raw(device) == device.buildingid
BuildingKey(device) ==
  IF device.buildingid = Str_Empty THEN Str_UnknownBuilding
  ELSE device.buildingid
FloorKey(device) ==
  IF device.floorid = Str_Empty THEN Str_UnknownFloor ELSE device.floorid

\* a Map is the sequence of its entries in insertion order
HasKey(map, key) == \E i \in 1..Len(map) : map[i].key = key
EntryIndex(map, key) == CHOOSE i \in 1..Len(map) : map[i].key = key

\* the body of devices.forEach: create the building entry and the floor
\* entry on first use, then push the device
AddToFloors(floorMap, floorId, device) ==
  LET withFloor ==
        IF HasKey(floorMap, floorId) THEN floorMap
        ELSE Append(floorMap, [key |-> floorId, value |-> <<>>])
      i == EntryIndex(withFloor, floorId)
  IN [withFloor EXCEPT ![i].value = Append(@, device)]

AddDevice(map, device) ==
  LET buildingId == BuildingKey(device)
      withBuilding ==
        IF HasKey(map, buildingId) THEN map
        ELSE Append(map, [key |-> buildingId, value |-> <<>>])
      i == EntryIndex(withBuilding, buildingId)
  IN [withBuilding EXCEPT ![i].value = AddToFloors(@, FloorKey(device), device)]

RECURSIVE GroupedByBuilding(_)
GroupedByBuilding(list) ==
  IF list = <<>> THEN <<>>
  ELSE AddDevice(GroupedByBuilding(SubSeq(list, 1, Len(list) - 1)),
                 list[Len(list)])

\* Array.prototype.sort is stable: an element goes after the last element
\* that does not compare greater than it
RECURSIVE InsertByMac(_, _)
InsertByMac(sorted, device) ==
  IF sorted = <<>> THEN <<device>>
  ELSE IF LocaleCompare(sorted[Len(sorted)].macAddress, device.macAddress) <= 0
    THEN Append(sorted, device)
  ELSE Append(InsertByMac(SubSeq(sorted, 1, Len(sorted) - 1), device),
              sorted[Len(sorted)])

\* floorList.sort((a, b) => a.macAddress.localeCompare(b.macAddress))
RECURSIVE SortByMac(_)
SortByMac(list) ==
  IF list = <<>> THEN <<>>
  ELSE InsertByMac(SortByMac(SubSeq(list, 1, Len(list) - 1)), list[Len(list)])

RECURSIVE InsertByName(_, _, _)
InsertByName(sorted, key, nameMap) ==
  IF sorted = <<>> THEN <<key>>
  ELSE IF LocaleCompare(ResolvedName(nameMap, sorted[Len(sorted)]),
                        ResolvedName(nameMap, key)) <= 0
    THEN Append(sorted, key)
  ELSE Append(InsertByName(SubSeq(sorted, 1, Len(sorted) - 1), key, nameMap),
              sorted[Len(sorted)])

\* Array.from(map.keys()).sort((a, b) =>
\*   (nameMap.get(a) || a).localeCompare(nameMap.get(b) || b))
RECURSIVE SortedKeys(_, _)
SortedKeys(keys, nameMap) ==
  IF keys = <<>> THEN <<>>
  ELSE InsertByName(SortedKeys(SubSeq(keys, 1, Len(keys) - 1), nameMap),
                    keys[Len(keys)], nameMap)

Keys(map) == [i \in 1..Len(map) |-> map[i].key]
Get(map, key) == map[EntryIndex(map, key)].value

\* the floors of one building in the final structure: the floor keys sorted
\* by name, each with its list sorted by MAC address
SortedFloorsMap(buildingMap, floorNames) ==
  LET sortedFloorKeys == SortedKeys(Keys(buildingMap), floorNames)
  IN [i \in 1..Len(sortedFloorKeys) |->
        [key |-> sortedFloorKeys[i],
         value |-> SortByMac(Get(buildingMap, sortedFloorKeys[i]))]]

\* the value of the useMemo while an input is missing
NoGrouping == [ready |-> FALSE, sortedBuildingKeys |-> <<>>, groupedData |-> <<>>]

\* the useMemo body once the three inputs are there
Grouping(devs, bldgs, flrs) ==
  LET grouped == GroupedByBuilding(devs)
      sortedBuildingKeys == SortedKeys(Keys(grouped), BuildingNameMap(bldgs))
  IN [ready |-> TRUE,
      sortedBuildingKeys |-> sortedBuildingKeys,
      groupedData |->
        [i \in 1..Len(sortedBuildingKeys) |->
           [key |-> sortedBuildingKeys[i],
            value |-> SortedFloorsMap(Get(grouped, sortedBuildingKeys[i]),
                                      FloorNameMap(flrs))]]]

\* if (!devices || !buildings || !floors) return null
GroupedAndSortedData_DevicesOnly(devs, bldgs, flrs, have) ==
  IF "devices" \in have THEN Grouping(devs, bldgs, flrs) ELSE NoGrouping
GroupedAndSortedData(devs, bldgs, flrs, have) ==
  IF have = {"devices", "buildings", "floors"} THEN Grouping(devs, bldgs, flrs)
  ELSE NoGrouping

\* one call of the calculation of the useMemo: its value, and the three
\* arrays as the call leaves them. forEach only reads them; push and sort
\* act on the arrays the call creates (buildingMap.set(floorId, []))
RunMemo_SortsInput(devs, bldgs, flrs, have) ==
  [value |-> GroupedAndSortedData(devs, bldgs, flrs, have),
   devices |-> IF have = {"devices", "buildings", "floors"}
                 THEN SortByMac(devs) ELSE devs,
   buildings |-> bldgs, floors |-> flrs]
RunMemo(devs, bldgs, flrs, have) ==
  [value |-> GroupedAndSortedData(devs, bldgs, flrs, have),
   devices |-> devs, buildings |-> bldgs, floors |-> flrs]

\* ------------------------------------------------- expand/collapse state
\* new Map()
NoExpansion == <<>>
NoToggle == [map |-> "none"]

\* `${buildingId}-${floorId}`
FloorStateKey(buildingId, floorId) == buildingId \o <<"-">> \o floorId

\* the (building key, floor key) pairs of a grouping
FloorPairs(g) ==
  UNION {{<<g.groupedData[i].key, g.groupedData[i].value[j].key>> :
            j \in 1..Len(g.groupedData[i].value)} : i \in 1..Len(g.groupedData)}

\* the two Maps the effect builds from a grouping
InitialBuildingState(g) ==
  [k \in {g.sortedBuildingKeys[i] : i \in 1..Len(g.sortedBuildingKeys)} |-> TRUE]
InitialFloorState(g) ==
  [k \in {FloorStateKey(pair[1], pair[2]) : pair \in FloorPairs(g)} |-> TRUE]

\* expandedBuildings.get(buildingId) ?? true
IsBuildingExpanded(map, buildingId) ==
  IF buildingId \in DOMAIN map THEN map[buildingId] ELSE TRUE
\* expandedFloors.get(floorKey) ?? false
IsFloorExpanded(map, buildingId, floorId) ==
  LET floorKey == FloorStateKey(buildingId, floorId)
  IN IF floorKey \in DOMAIN map THEN map[floorKey] ELSE FALSE

\* prev => { const newState = new Map(prev);
\*           newState.set(key, !prev.get(key)); return newState }
Toggled_SetsTrue(prev, key) ==
  [k \in DOMAIN prev \cup {key} |-> IF k = key THEN TRUE ELSE prev[k]]
Toggled(prev, key) ==
  [k \in DOMAIN prev \cup {key} |->
     IF k = key THEN ~(key \in DOMAIN prev /\ prev[key]) ELSE prev[k]]

\* the page renders the group headers: not loading, no error, and a
\* grouping with at least one building
ListShown ==
  /\ resolved = {"devices", "buildings", "floors"}
  /\ failed = {}
  /\ groupedAndSortedData.ready
  /\ Len(groupedAndSortedData.sortedBuildingKeys) > 0

\* useEffect(..., [groupedAndSortedData]): a new grouping schedules the effect
EffectAfter(g) == IF g.ready THEN "pending" ELSE effect

GroupIdle ==
  /\ devices = <<>>
  /\ buildings = <<>>
  /\ floors = <<>>
  /\ resolved = {}
  /\ failed = {}
  /\ groupedAndSortedData = NoGrouping
  /\ expandedBuildings = NoExpansion
  /\ expandedFloors = NoExpansion
  /\ effect = "none"
  /\ toggles = 0
  /\ lastToggle = NoToggle
  /\ recalcs = 0

\* a response arrives (useFetch setData) and the page renders again: the
\* useMemo recomputes because one of its dependencies changed
DevicesResolve ==
  \E list \in DeviceLists :
    LET run == RunMemo(list, buildings, floors, resolved \cup {"devices"})
    IN /\ "devices" \notin resolved \cup failed
       /\ resolved' = resolved \cup {"devices"}
       /\ devices' = run.devices
       /\ buildings' = run.buildings
       /\ floors' = run.floors
       /\ groupedAndSortedData' = run.value
       /\ effect' = EffectAfter(run.value)
       /\ lastToggle' = NoToggle
       /\ UNCHANGED <<failed, expandedBuildings, expandedFloors, toggles, recalcs>>
       /\ UNCHANGED <<viewVars, apiVars, formVars, hookVars, cacheVars, pageVars>>

BuildingsResolve ==
  \E list \in BuildingLists :
    LET run == RunMemo(devices, list, floors, resolved \cup {"buildings"})
    IN /\ "buildings" \notin resolved \cup failed
       /\ resolved' = resolved \cup {"buildings"}
       /\ devices' = run.devices
       /\ buildings' = run.buildings
       /\ floors' = run.floors
       /\ groupedAndSortedData' = run.value
       /\ effect' = EffectAfter(run.value)
       /\ lastToggle' = NoToggle
       /\ UNCHANGED <<failed, expandedBuildings, expandedFloors, toggles, recalcs>>
       /\ UNCHANGED <<viewVars, apiVars, formVars, hookVars, cacheVars, pageVars>>

FloorsResolve ==
  \E list \in FloorLists :
    LET run == RunMemo(devices, buildings, list, resolved \cup {"floors"})
    IN /\ "floors" \notin resolved \cup failed
       /\ resolved' = resolved \cup {"floors"}
       /\ devices' = run.devices
       /\ buildings' = run.buildings
       /\ floors' = run.floors
       /\ groupedAndSortedData' = run.value
       /\ effect' = EffectAfter(run.value)
       /\ lastToggle' = NoToggle
       /\ UNCHANGED <<failed, expandedBuildings, expandedFloors, toggles, recalcs>>
       /\ UNCHANGED <<viewVars, apiVars, formVars, hookVars, cacheVars, pageVars>>

\* one of the three requests fails: useFetch sets error and keeps data null,
\* so no dependency of the useMemo changes
RequestFails ==
  \E name \in {"devices", "buildings", "floors"} :
    /\ name \notin resolved \cup failed
    /\ failed' = failed \cup {name}
    /\ lastToggle' = NoToggle
    /\ UNCHANGED <<devices, buildings, floors, resolved, groupedAndSortedData,
                   expandedBuildings, expandedFloors, effect, toggles, recalcs>>
    /\ UNCHANGED <<viewVars, apiVars, formVars, hookVars, cacheVars, pageVars>>

\* React calls the calculation again although no input has changed (a
\* development build calls it twice; a cached value may be thrown away): the
\* new grouping is a new object, so the effect is scheduled again
Recalculates ==
  LET run == RunMemo(devices, buildings, floors, resolved)
  IN /\ groupedAndSortedData.ready
     /\ recalcs < MaxRecalcs
     /\ recalcs' = recalcs + 1
     /\ devices' = run.devices
     /\ buildings' = run.buildings
     /\ floors' = run.floors
     /\ groupedAndSortedData' = run.value
     /\ effect' = EffectAfter(run.value)
     /\ lastToggle' = NoToggle
     /\ UNCHANGED <<resolved, failed, expandedBuildings, expandedFloors, toggles>>
     /\ UNCHANGED <<viewVars, apiVars, formVars, hookVars, cacheVars, pageVars>>

\* the effect runs: setExpandedBuildings(initialBuildingState),
\* setExpandedFloors(initialFloorState)
InitExpansion ==
  /\ effect \in {"pending", "queued"}
  /\ expandedBuildings' = InitialBuildingState(groupedAndSortedData)
  /\ expandedFloors' = InitialFloorState(groupedAndSortedData)
  /\ effect' = "done"
  /\ lastToggle' = NoToggle
  /\ UNCHANGED <<devices, buildings, floors, resolved, failed,
                 groupedAndSortedData, toggles, recalcs>>
  /\ UNCHANGED <<viewVars, apiVars, formVars, hookVars, cacheVars, pageVars>>

\* a click on a header. React runs the effects of the last render before
\* it renders the update of the click, so a click that comes before the
\* effect leaves the effect's two updates queued behind its own
EffectAfterClick == IF effect = "pending" THEN "queued" ELSE effect

\* onClick={() => toggleBuilding(buildingId)}
ToggleBuilding ==
  \E i \in 1..Len(groupedAndSortedData.sortedBuildingKeys) :
    LET buildingId == groupedAndSortedData.sortedBuildingKeys[i]
    IN /\ ListShown
       /\ effect \in {"pending", "done"}
       /\ toggles < MaxToggles
       /\ toggles' = toggles + 1
       /\ expandedBuildings' = Toggled(expandedBuildings, buildingId)
       /\ effect' = EffectAfterClick
       /\ lastToggle' =
            [map |-> "buildings", key |-> buildingId,
             buildingsBefore |-> expandedBuildings,
             floorsBefore |-> expandedFloors]
       /\ UNCHANGED <<devices, buildings, floors, resolved, failed,
                      groupedAndSortedData, expandedFloors, recalcs>>
       /\ UNCHANGED <<viewVars, apiVars, formVars, hookVars, cacheVars, pageVars>>

\* onClick={() => toggleFloor(buildingId, floorId)}: the floor headers of a
\* building are rendered while the building is expanded
ToggleFloor ==
  \E pair \in FloorPairs(groupedAndSortedData) :
    LET floorKey == FloorStateKey(pair[1], pair[2])
    IN /\ ListShown
       /\ IsBuildingExpanded(expandedBuildings, pair[1])
       /\ effect \in {"pending", "done"}
       /\ toggles < MaxToggles
       /\ toggles' = toggles + 1
       /\ expandedFloors' = Toggled(expandedFloors, floorKey)
       /\ effect' = EffectAfterClick
       /\ lastToggle' =
            [map |-> "floors", key |-> floorKey,
             buildingsBefore |-> expandedBuildings,
             floorsBefore |-> expandedFloors]
       /\ UNCHANGED <<devices, buildings, floors, resolved, failed,
                      groupedAndSortedData, expandedBuildings, recalcs>>
       /\ UNCHANGED <<viewVars, apiVars, formVars, hookVars, cacheVars, pageVars>>

\* the page from its mount to the grouping
GroupNext ==
  DevicesResolve \/ BuildingsResolve \/ FloorsResolve \/ RequestFails

\* the page once the three responses are there: the first render with a
\* grouping has scheduled the effect
ExpandInit ==
  /\ devices \in ListsOf(HyphenFields)
  /\ buildings = <<[bldgid |-> Str_B1, name |-> Str_Alpha]>>
  /\ floors = <<[floorid |-> Str_F1, name |-> Str_Zone]>>
  /\ resolved = {"devices", "buildings", "floors"}
  /\ failed = {}
  /\ groupedAndSortedData = RunMemo(devices, buildings, floors, resolved).value
  /\ expandedBuildings = NoExpansion
  /\ expandedFloors = NoExpansion
  /\ effect = "pending"
  /\ toggles = 0
  /\ lastToggle = NoToggle
  /\ recalcs = 0

ExpandNext == Recalculates \/ InitExpansion \/ ToggleBuilding \/ ToggleFloor

\* ============================================================== useForm
\* (src/app/hooks/useForm.ts, as the device-authorization page uses it)
NoId == ""
DeviceIds == {NoId, "dev1"}
NoMac == ""
MacAddresses == {NoMac, "aa:bb"}

\* the controls bound to handleChange and the options each one offers; the
\* placeholders of the two selects are disabled options
Fields == {"status", "segment", "description"}
Options(name) ==
  CASE name = "status" -> {"Approved", "Denied"}
    [] name = "segment" -> {"seg1"}
    [] name = "description" -> {"", "lab"}

\* useForm's initialValues on the page
InitialValues ==
  [status |-> "Status", segment |-> "Select Segment", description |-> ""]

\* useState<Record<string, string>>({})
NoErrors == [n \in {} |-> ""]

MissingDeviceMessage == "Missing device information"
SelectStatusMessage == "Please select a status"
SelectSegmentMessage == "Please select a segment"
AuthorizeFailedMessage == "Failed to authorize device"

\* errors[name] as a condition: the key is present and its text is not empty
Truthy(errs, name) == name \in DOMAIN errs /\ errs[name] # ""

\* { ...prev, [name]: error }
WithError(prev, name, text) ==
  [n \in DOMAIN prev \cup {name} |-> IF n = name THEN text ELSE prev[n]]

\* const newErrors = { ...prev }; delete newErrors[name]
WithoutError(prev, name) == [n \in DOMAIN prev \ {name} |-> prev[n]]

\* what a render hands to the handlers it creates
Closure == [values |-> values, errors |-> errors, isSubmitting |-> isSubmitting]

\* the page after its first render, for the given URL parameters
FormState(d, m) ==
  /\ deviceId = d
  /\ macAddress = m
  /\ values = InitialValues
  /\ errors = NoErrors
  /\ isSubmitting = FALSE
  /\ rendered =
       [values |-> InitialValues, errors |-> NoErrors, isSubmitting |-> FALSE]
  /\ authorizing = 0
  /\ returned = 0
  /\ submits = 0
  /\ authorizeCalls = 0
  /\ navigated = FALSE

FormIdle == FormState(NoId, NoMac)

FormInit == \E d \in DeviceIds : \E m \in MacAddresses : FormState(d, m)

\* the page renders the form only when both URL parameters are there
FormShown == deviceId # NoId /\ macAddress # NoMac

\* the checks of submitForm before it calls authorizeDevice: the field and the
\* message of the setFieldError it returns after, or none
NoFieldError == <<>>
SubmitFormError_IgnoresSegment(d, m, v) ==
  IF d = NoId \/ m = NoMac THEN <<"form", MissingDeviceMessage>>
  ELSE IF v.status = "Status" THEN <<"status", SelectStatusMessage>>
  ELSE NoFieldError
SubmitFormError(d, m, v) ==
  IF d = NoId \/ m = NoMac THEN <<"form", MissingDeviceMessage>>
  ELSE IF v.status = "Status" THEN <<"status", SelectStatusMessage>>
  ELSE IF v.segment = "Select Segment" THEN <<"segment", SelectSegmentMessage>>
  ELSE NoFieldError

\* the flag the finally block of handleSubmit writes
FinallySubmitting_KeepsFlag(before) == before
FinallySubmitting(before) == FALSE

\* handleChange -> setFieldValue(name, value): the value is written by a
\* functional update; the error is deleted by a functional update, but only
\* if the errors of the handler's own render have one for the field
HandleChange ==
  \E name \in Fields : \E value \in Options(name) :
    /\ FormShown
    /\ values' = [values EXCEPT ![name] = value]
    /\ errors' =
         IF Truthy(rendered.errors, name) THEN WithoutError(errors, name)
         ELSE errors
    /\ UNCHANGED <<deviceId, macAddress, isSubmitting, rendered, authorizing,
                   returned, submits, authorizeCalls, navigated>>
    /\ UNCHANGED <<viewVars, apiVars, groupVars, hookVars, cacheVars, pageVars>>

\* a click on the Submit button, which the render disables while its
\* isSubmitting is true: handleSubmit sets the flag and invokes submitForm,
\* which runs up to its return or to its await of authorizeDevice
Submit ==
  /\ FormShown
  /\ ~rendered.isSubmitting
  /\ submits < MaxSubmits
  /\ submits' = submits + 1
  /\ isSubmitting' = TRUE
  /\ LET fe == SubmitFormError(deviceId, macAddress, rendered.values) IN
       IF fe # NoFieldError
         THEN /\ errors' = WithError(errors, fe[1], fe[2])
              /\ returned' = returned + 1
              /\ UNCHANGED <<authorizing, authorizeCalls>>
         ELSE /\ authorizing' = authorizing + 1
              /\ authorizeCalls' = authorizeCalls + 1
              /\ UNCHANGED <<errors, returned>>
  /\ UNCHANGED <<deviceId, macAddress, values, rendered, navigated>>
  /\ UNCHANGED <<viewVars, apiVars, groupVars, hookVars, cacheVars, pageVars>>

\* submitForm had returned after a setFieldError: await onSubmit() resumes and
\* the finally block runs
SubmitReturns ==
  /\ returned > 0
  /\ returned' = returned - 1
  /\ isSubmitting' = FinallySubmitting(isSubmitting)
  /\ UNCHANGED <<deviceId, macAddress, values, errors, rendered, authorizing,
                 submits, authorizeCalls, navigated>>
  /\ UNCHANGED <<viewVars, apiVars, groupVars, hookVars, cacheVars, pageVars>>

\* authorizeDevice settles: submitForm navigates, or catches the rejection
\* and sets the form error; then the finally block of handleSubmit runs
AuthorizeSettles ==
  \E ok \in BOOLEAN :
    /\ authorizing > 0
    /\ authorizing' = authorizing - 1
    /\ IF ok THEN navigated' = TRUE /\ UNCHANGED errors
       ELSE /\ errors' = WithError(errors, "form", AuthorizeFailedMessage)
            /\ UNCHANGED navigated
    /\ isSubmitting' = FinallySubmitting(isSubmitting)
    /\ UNCHANGED <<deviceId, macAddress, values, rendered, returned, submits,
                   authorizeCalls>>
    /\ UNCHANGED <<viewVars, apiVars, groupVars, hookVars, cacheVars, pageVars>>

\* React renders the component again after state updates; the handlers of
\* the new render close over the current state
Render ==
  /\ rendered # Closure
  /\ rendered' = Closure
  /\ UNCHANGED <<deviceId, macAddress, values, errors, isSubmitting,
                 authorizing, returned, submits, authorizeCalls, navigated>>
  /\ UNCHANGED <<viewVars, apiVars, groupVars, hookVars, cacheVars, pageVars>>

FormNext ==
  HandleChange \/ Submit \/ SubmitReturns \/ AuthorizeSettles \/ Render

InitForm ==
  ViewIdle /\ ApiIdle /\ FormInit /\ GroupIdle /\ HookIdle /\ PageIdle /\ CacheIdle

SpecForm == InitForm /\ [][FormNext]_vars

\* the promises of a submission settle: the await of a returned submitForm
\* resumes in the next microtask, and authorizeDevice ends with a response or
\* a failure of the request
FairSpecForm ==
  SpecForm /\ WF_vars(SubmitReturns) /\ WF_vars(AuthorizeSettles)

InitGroup ==
  ViewIdle /\ ApiIdle /\ FormIdle /\ GroupIdle /\ HookIdle /\ PageIdle /\ CacheIdle

SpecGroup == InitGroup /\ [][GroupNext]_vars

InitExpand == ViewIdle /\ ApiIdle /\ FormIdle /\ ExpandInit /\ HookIdle /\ PageIdle /\ CacheIdle
SpecExpand == InitExpand /\ [][ExpandNext]_vars

\* the provider after checkAuth has loaded the principal's one credential
AuthInit == CacheState(<<CachedKey(1, "a")>>)

InitAuth ==
  ViewIdle /\ ApiIdle /\ FormIdle /\ GroupIdle /\ HookIdle /\ PageIdle /\ AuthInit

SpecAuth == InitAuth /\ [][AuthNext]_vars

InitPage ==
  ViewIdle /\ ApiIdle /\ FormIdle /\ GroupIdle /\ HookIdle /\ PageIdle /\ CacheIdle

SpecPage == InitPage /\ [][PageNext]_vars

InitHook ==
  ViewIdle /\ ApiIdle /\ FormIdle /\ GroupIdle /\ HookIdle /\ PageIdle /\ CacheIdle

SpecHook == InitHook /\ [][HookNext]_vars

InitCache ==
  ViewIdle /\ ApiIdle /\ FormIdle /\ GroupIdle /\ HookIdle /\ PageIdle /\ CacheInit

SpecCache == InitCache /\ [][CacheNext]_vars

UiIdle == FormIdle /\ GroupIdle /\ HookIdle /\ PageIdle /\ CacheIdle

ApiNext ==
  \/ ApiCall \/ HeadersToken \/ KeysToken \/ KeysResponse \/ Response
  \/ KeyOpToken \/ KeyOpResponse \/ SignIn \/ SignOut

InitApi == ViewIdle /\ ApiInit /\ UiIdle

SpecApi == InitApi /\ [][ApiNext]_vars

Next == Mount \/ Rerender \/ FetchSettles \/ TimerFires

Init == ViewInit /\ ApiIdle /\ UiIdle

Spec == Init /\ [][Next]_vars

\* ================================================================= claims
\* history shorthands
Settled == count401 + count400 + countNetwork
Only401SoFar ==
  countNetwork = 0 /\ count400 = 0 /\ response.status \in {0, 401}
FailedWith(e) == thrown = e /\ error = Message(e) /\ ~loading /\ rawData = Null

\* C1 (as stated): when every response is HTTP 401 the fetch primitive is
\* invoked at most 5 times in total and the operation then fails with the
\* authentication-exhausted error.
C1_AtMostFiveFetches ==
  (Only401SoFar /\ count401 = fetchCount)
    => (fetchCount <= 5 /\ (pc = "done" => thrown = ExhaustedError(site, 401)))

\* C1 (amended): when every response is HTTP 401 the fetch primitive is invoked
\* exactly MAX_RETRIES + 1 = 6 times (1 initial attempt and 5 retries), after
\* which the operation fails with the authentication-exhausted error, and no
\* attempt follows the failure.
C1_SixFetchesThenExhausted ==
  /\ [](Only401SoFar => fetchCount <= MAX_RETRIES + 1)
  /\ []((pc = "done" /\ Only401SoFar /\ count401 > 0)
          => (fetchCount = MAX_RETRIES + 1 /\ FailedWith(ExhaustedError(site, 401))))
  /\ [][pc = "done" => (pc' = "done" /\ fetchCount' = fetchCount)]_vars

C1_Witness ==
  pc = "done" /\ Only401SoFar /\ count401 = 6 /\ fetchCount = 6
    /\ thrown.text = "Authentication failed after retries"

\* C2: if the first k (0 <= k <= 5) attempts return 401 and attempt k+1
\* returns 200 (with a JSON body), the operation succeeds with the parsed body
\* after exactly k+1 invocations of fetch; no wait precedes the first attempt
\* and exactly one backoff wait of 1.0 to 5.0 seconds precedes each retry.
C2_RetriesThenSuccess ==
  /\ (fetchCount >= 1 => waitCount = fetchCount - 1)
  /\ (fetchCount = 0 => waitCount = 0 /\ pc # "waiting")
  /\ (pc = "waiting" => (backoff >= 1000 /\ backoff <= 5000))
  /\ \A k \in 0..5 :
       (/\ pc = "done"
        /\ count401 = k /\ count400 = 0 /\ countNetwork = 0
        /\ response.status = 200
        /\ ParseJson(response.body).ok)
         => /\ rawData = ParseJson(response.body).value
            /\ error = NoMessage /\ thrown = NoErr /\ ~loading
            /\ fetchCount = k + 1
            /\ waitCount = k

C2_Witness ==
  pc = "done" /\ count401 = 5 /\ count400 = 0 /\ countNetwork = 0
    /\ response = Outcome(FALSE, 200, Body_One) /\ rawData = <<"7">>
    /\ fetchCount = 6 /\ waitCount = 5

\* C3 (as stated): when the retries are exhausted by network failures the
\* operation fails with a distinct network-exhausted error carrying the
\* attempt count, not with the raw fetch error.
C3_NetworkExhaustedError ==
  (pc = "done" /\ response.network)
    => (thrown.name # "TypeError" /\ thrown.retries = MAX_RETRIES)

\* C3 (amended): network-level failures are retried under the same ceiling and
\* the same counter as 401 responses; when the retries are exhausted by a
\* network failure the operation fails with the raw underlying fetch error
\* (the TypeError), whose message carries no attempt count.
C3_NetworkSharesCounterRawError ==
  /\ fetchCount <= MAX_RETRIES + 1
  /\ (pc # "done"
        => retryCount = count401 + countNetwork
                          + (IF site = "clients" THEN count400 ELSE 0))
  /\ (pc = "done" /\ response.network)
        => /\ FailedWith(NetworkError)
           /\ fetchCount = MAX_RETRIES + 1
           /\ retryCount = MAX_RETRIES

C3_Witness ==
  pc = "done" /\ response.network /\ countNetwork = 3 /\ count401 = 3
    /\ thrown.name = "TypeError" /\ fetchCount = 6

\* C4: a non-2xx response that is not retryable (not 401, and not 400 where 400
\* is retried) fails the operation at once with an error carrying the status:
\* no backoff wait and no fetch follows it, whatever the retry counter is.
C4_NotRetried(st) ==
  st # 0 /\ (st < 200 \/ st > 299) /\ st # 401 /\ ~(site = "clients" /\ st = 400)

C4_OtherStatusFailsAtOnce ==
  /\ [][(pc = "fetching" /\ ~response'.network /\ C4_NotRetried(response'.status))
          => /\ pc' = "done"
             /\ thrown' = Err("Error", "HTTP error! status", response'.status, 0)
             /\ error' = Message(thrown') /\ ~loading'
             /\ UNCHANGED <<fetchCount, waitCount, retryCount, rawData>>]_vars
  /\ [][pc = "done"
          => (pc' = "done" /\ UNCHANGED <<fetchCount, waitCount, backoff>>)]_vars

C4_Witness ==
  pc = "done" /\ response.status = 403 /\ retryCount = 3 /\ fetchCount = 4
    /\ error.text = "HTTP error! status" /\ error.status = 403

\* C5: at every call site, if the list holds an entry whose service label is
\* exactly 'Nile', that entry is the one resolved, even when an entry that only
\* contains 'nile' case-insensitively comes earlier in the list.
C5_ExactMatchWins ==
  (pc \in {"fetching", "waiting", "done"} /\ \E i \in 1..Len(apiKeys) : apiKeys[i].service = Str_Nile)
    => (nileApiKey # 0 /\ apiKeys[nileApiKey].service = Str_Nile)

\* C6: with no label equal to or containing the target, resolution gives the
\* first credential of a non-empty list; the view's error is set to the
\* no-credential message, and no request is sent, exactly when the list is
\* empty.
C6_NoCredential(m) ==
  m.text \in {"No API keys found", "No suitable API key found", "No API keys available"}

C6_FallbackOrNoCredentialError ==
  pc \notin {"mount", "rerender"}
    => /\ (Len(apiKeys) = 0 <=> C6_NoCredential(error))
       /\ (Len(apiKeys) = 0 => fetchCount = 0)
       /\ (/\ fetchCount > 0
           /\ \A i \in 1..Len(apiKeys) :
                ~Includes(ToLowerCase(apiKeys[i].service), Str_nile))
            => nileApiKey = 1

\* C7: authorizeDevice raises the invalid-status error before any network
\* call: for a status other than 'Approved' and 'Denied' no HTTP request, not
\* even a look-up made to build the headers, has been issued when it fails.
C7_InvalidStatusBeforeAnyRequest ==
  (call.op = "authorizeDevice" /\ call.status \notin {"Approved", "Denied"}
     /\ result.state = "rejected")
    => (result.err.text = "Invalid status provided" /\ requests = <<>>)

\* C8: authorizeDevice maps 'Approved' to state 'AUTH_OK' and 'Denied' to
\* 'AUTH_DENIED', and never sends a request whose state is anything else.
C8_StatusMapping ==
  \A i \in 1..Len(requests) :
    requests[i].method = "PATCH"
      => /\ call.op = "authorizeDevice"
         /\ requests[i].state \in {"AUTH_OK", "AUTH_DENIED"}
         /\ (call.status = "Approved" <=> requests[i].state = "AUTH_OK")
         /\ (call.status = "Denied" <=> requests[i].state = "AUTH_DENIED")

C8_Witness ==
  /\ call = [op |-> "authorizeDevice", status |-> "Denied"]
  /\ result.state = "resolved"
  /\ \E i \in 1..Len(requests) :
       requests[i].method = "PATCH" /\ requests[i].state = "AUTH_DENIED"

\* C9: with no session active an authenticated call to the backend fails with
\* the not-authenticated error and sends nothing: no request is ever sent
\* without an Authorization token.
C9_NoRequestWithoutToken ==
  /\ \A i \in 1..Len(requests) : requests[i].authorization # NoSession
  /\ (call.op \in ApiOps /\ call.status \in {NoStatus, "Approved", "Denied"}
        /\ apiPc \in {"response", "idle"} /\ headers.authorization = NoSession)
       => result = Rejected(NotAuthenticatedError)

\* C10: each of the four API-key operations (list, create, update, delete)
\* fails with the not-authenticated error when no session token is available;
\* list reports that failure to its caller instead of giving an empty list.
C10_KeyOpsRejectWithoutToken ==
  (call.op \in KeyOps /\ apiPc = "idle" /\ requests = <<>>)
    => result = Rejected(NotAuthenticatedError)

\* --------------------------------------------------------------- useForm
\* a step in which the handler of handleSubmit was invoked
SubmitStep == submits' = submits + 1
\* the record types of the checks of submitForm
ValueRecords ==
  [status : {"Status"} \cup Options("status"),
   segment : {"Select Segment"} \cup Options("segment"),
   description : Options("description")]

\* C11: if the device id or the MAC address is missing, or the status is
\* still the placeholder 'Status', or the segment is still the placeholder
\* 'Select Segment', submitting the form sets an error in the form's error
\* state and authorizeDevice is not called: no request, no navigation.
C11_PreconditionAborts ==
  [][/\ \A d \in DeviceIds, m \in MacAddresses, v \in ValueRecords :
          (d = NoId \/ m = NoMac \/ v.status = "Status"
             \/ v.segment = "Select Segment")
            => SubmitFormError(d, m, v) # NoFieldError
     /\ (SubmitStep /\ (deviceId = NoId \/ macAddress = NoMac
                          \/ values.status = "Status"
                          \/ values.segment = "Select Segment"))
          => /\ \/ (deviceId = NoId \/ macAddress = NoMac)
                     /\ Truthy(errors', "form")
                \/ rendered.values.status = "Status"
                     /\ Truthy(errors', "status")
                \/ rendered.values.segment = "Select Segment"
                     /\ Truthy(errors', "segment")
             /\ authorizeCalls' = authorizeCalls
             /\ authorizing' = authorizing
             /\ navigated' = navigated]_vars

C11_Witness ==
  /\ values.status = "Approved"
  /\ values.segment = "Select Segment"
  /\ submits = 1
  /\ Truthy(errors, "segment")
  /\ errors["segment"] = SelectSegmentMessage
  /\ authorizeCalls = 0
  /\ ~navigated

\* C12 (as stated): handleSubmit serializes concurrent submissions: for any
\* sequence of submit events at most one submitted action is in flight at any
\* time; a second submit issued before the first action has settled starts
\* no second, overlapping invocation of the action.
C12_AtMostOneInFlight == authorizing <= 1

\* C13 (as stated): setFieldValue(name, value) updates the value of the field
\* and clears any existing error of the field, for every order of the
\* preceding calls: also when setFieldError(name, m) and setFieldValue(name, v)
\* are issued from the same render, errors[name] is absent afterwards.
C13_ChangeClearsError ==
  [][\A n \in Fields :
       values'[n] # values[n]
         => (values'[n] \in Options(n) /\ n \notin DOMAIN errors')]_vars

\* the submissions whose action has not settled, or whose finally block has
\* not run yet
InFlight == authorizing + returned
\* a step in which the awaited action of a submission settles and the rest of
\* handleSubmit runs
SettleStep == authorizing' < authorizing \/ returned' < returned
\* the texts submitForm passes to setFieldError
SubmitFormMessages ==
  {MissingDeviceMessage, SelectStatusMessage, SelectSegmentMessage,
   AuthorizeFailedMessage}

\* C14: handleSubmit sets isSubmitting to true before it invokes the action,
\* and isSubmitting is eventually false after the action settles, whether it
\* resolves or rejects; while a single submission's action is in flight
\* isSubmitting stays true; handleSubmit itself changes neither values nor
\* errors (errors change in a submission only by a setFieldError of the
\* submitted action).
C14_SubmittingFlag ==
  /\ [][SubmitStep => (isSubmitting' /\ InFlight' = InFlight + 1)]_vars
  /\ [][SettleStep => ~isSubmitting']_vars
  /\ (InFlight > 0) ~> (~isSubmitting)
  /\ []((submits = 1 /\ InFlight = 1) => isSubmitting)
  /\ [][(InFlight = 1 /\ isSubmitting /\ ~SettleStep) => isSubmitting']_vars
  /\ [][(SubmitStep \/ SettleStep)
          => /\ values' = values
             /\ \/ errors' = errors
                \/ \E n \in DOMAIN errors' :
                     /\ errors'[n] \in SubmitFormMessages
                     /\ errors' = WithError(errors, n, errors'[n])
             /\ (authorizing' > authorizing \/ returned' < returned)
                  => errors' = errors]_vars

C14_Witness ==
  /\ submits = 1
  /\ authorizeCalls = 1
  /\ InFlight = 0
  /\ ~isSubmitting
  /\ Truthy(errors, "form")
  /\ ~navigated

\* -------------------------------------------------------------- grouping
\* where a device stands in the nested output: building entry, floor entry,
\* place in the floor's list
Places(g, device) ==
  {p \in {<<b, f, k>> : b \in 1..Len(g.groupedData),
                        f \in 1..MaxItems, k \in 1..MaxItems} :
     /\ p[2] <= Len(g.groupedData[p[1]].value)
     /\ p[3] <= Len(g.groupedData[p[1]].value[p[2]].value)
     /\ g.groupedData[p[1]].value[p[2]].value[p[3]] = device}
\* the lists of all floor groups, one after the other
FloorGroups(g) ==
  {<<b, f>> \in (1..Len(g.groupedData)) \X (1..MaxItems) :
     f <= Len(g.groupedData[b].value)}
RECURSIVE SumOfLengths(_, _)
SumOfLengths(g, groups) ==
  IF groups = {} THEN 0
  ELSE LET p == CHOOSE q \in groups : TRUE
       IN Len(g.groupedData[p[1]].value[p[2]].value)
            + SumOfLengths(g, groups \ {p})

\* C15: grouping never drops or duplicates an item: for every input list each
\* device appears exactly once in the nested building -> floor output, a
\* device without a building id under 'Unknown Building' and a device without
\* a floor id under 'Unknown Floor'.
C15_EachItemOnce ==
  groupedAndSortedData.ready
    => /\ \A i \in 1..Len(devices) :
            /\ Cardinality(Places(groupedAndSortedData, devices[i])) = 1
            /\ \A p \in Places(groupedAndSortedData, devices[i]) :
                 /\ groupedAndSortedData.groupedData[p[1]].key =
                      (IF devices[i].buildingid = Str_Empty
                         THEN Str_UnknownBuilding ELSE devices[i].buildingid)
                 /\ groupedAndSortedData.groupedData[p[1]].value[p[2]].key =
                      (IF devices[i].floorid = Str_Empty
                         THEN Str_UnknownFloor ELSE devices[i].floorid)
       /\ SumOfLengths(groupedAndSortedData, FloorGroups(groupedAndSortedData))
            = Len(devices)
       /\ Keys(groupedAndSortedData.groupedData)
            = groupedAndSortedData.sortedBuildingKeys

C15_Witness ==
  /\ groupedAndSortedData.ready
  /\ Len(devices) = 2
  /\ devices[1].buildingid = Str_Empty
  /\ devices[1].floorid = Str_F1
  /\ devices[2].buildingid = Str_B1
  /\ devices[2].floorid = Str_Empty
  /\ Keys(groupedAndSortedData.groupedData) = <<Str_B1, Str_UnknownBuilding>>

\* the same items in every order
Reorderings(list) ==
  {[i \in 1..Len(list) |-> list[p[i]]] :
     p \in {q \in [1..Len(list) -> 1..Len(list)] :
              \A i, j \in 1..Len(list) : q[i] = q[j] => i = j}}
\* the iteration order of the building keys and of the floor keys of each
KeyOrder(g) ==
  [buildingKeys |-> g.sortedBuildingKeys,
   floorKeys |-> [b \in 1..Len(g.groupedData) |-> Keys(g.groupedData[b].value)]]
\* no key stands before a key whose resolved name is smaller
Ascending(keys, nameMap) ==
  \A i, j \in 1..Len(keys) :
    i < j => LocaleCompare(ResolvedName(nameMap, keys[i]),
                           ResolvedName(nameMap, keys[j])) <= 0

\* C16 (as stated): the building iteration order of the grouping is ascending
\* by resolved display name (the raw id when no name is known) and does not
\* depend on the order of the input items; the floor keys inside each
\* building are ordered the same way by resolved floor name.
C16_NameOrderAnyInputOrder ==
  groupedAndSortedData.ready
    => /\ Ascending(groupedAndSortedData.sortedBuildingKeys,
                    BuildingNameMap(buildings))
       /\ \A b \in 1..Len(groupedAndSortedData.groupedData) :
            Ascending(Keys(groupedAndSortedData.groupedData[b].value),
                      FloorNameMap(floors))
       /\ \A other \in Reorderings(devices) :
            KeyOrder(Grouping(other, buildings, floors))
              = KeyOrder(groupedAndSortedData)

\* C17 (as stated): within each floor group the items are ordered by MAC
\* address under case-sensitive lexicographic (code-unit) comparison: the
\* output order of every pair of MAC strings is the order that comparison
\* gives, so every upper-case letter sorts before every lower-case letter.
C17_MacCodeUnitOrder ==
  groupedAndSortedData.ready
    => \A b \in 1..Len(groupedAndSortedData.groupedData) :
         \A f \in 1..Len(groupedAndSortedData.groupedData[b].value) :
           LET floorList == groupedAndSortedData.groupedData[b].value[f].value
           IN \A i, j \in 1..Len(floorList) :
                i < j => CodeUnitCompare(floorList[i].macAddress,
                                         floorList[j].macAddress) <= 0

\* --------------------------------------------------------------- useFetch
\* the request of run i settles in this step
Settles(i) ==
  i <= Len(runs) /\ runs[i].request = "pending" /\ runs'[i].request # "pending"

\* C18 (as stated): aborting an in-flight useFetch request before it resolves
\* leaves loading = false and error = null, whereas a network failure leaves
\* loading = false and error non-null; an abort never produces an error state.
C18_AbortIsNotAnError ==
  /\ [](\A i \in 1..Len(runs) :
          (i = Len(runs) /\ runs[i].aborted /\ runs[i].request = "pending")
            => (~hookLoading /\ hookError = NoFetchError))
  /\ [][\A i \in 1..MaxRuns :
          (Settles(i) /\ ~runs[i].aborted /\ runs'[i].request = "rejected")
            => (~hookLoading' /\ hookError' # NoFetchError)]_vars
  /\ [][\A i \in 1..MaxRuns :
          (Settles(i) /\ runs[i].aborted)
            => (hookError' = NoFetchError \/ hookError' = hookError)]_vars

\* C19 (as stated): navigating away from a view (effect cleanup or unmount)
\* before its fetch resolves cancels that fetch: after the cleanup has run the
\* underlying request is aborted, and no later completion of it changes data,
\* error or loading of the hook.
C19_CleanupCancelsFetch ==
  /\ [](\A i \in 1..Len(runs) : runs[i].aborted => runs[i].request # "pending")
  /\ [][\A i \in 1..MaxRuns :
          (Settles(i) /\ runs[i].aborted)
            => UNCHANGED <<hookData, hookLoading, hookError>>]_vars

\* ---------------------------------------------------------- API-key cache
\* an operation settled with success in this step, and no other operation
\* was in flight at any time since it started
SettlesAlone == lastOp' # lastOp /\ lastOp'.ok /\ lastOp'.alone

\* C20 (as stated): API-key cache update on success, one operation in
\* flight: after a successful create the cache is the previous cache with the new entry
\* appended; after a successful update the entry with the same id is replaced
\* and every other entry is unchanged; after a successful delete exactly the
\* entry with that id is removed and every other entry is unchanged.
C20_CacheUpdateOnSuccess ==
  [][SettlesAlone =>
       CASE lastOp'.kind = "add" ->
              /\ cache' = Append(cache, lastOp'.key)
              /\ \A i \in 1..Len(cache) : cache[i].id # lastOp'.key.id
         [] lastOp'.kind = "update" ->
              /\ Len(cache') = Len(cache)
              /\ \A i \in 1..Len(cache) :
                   cache'[i] = IF cache[i].id = lastOp'.key.id
                                 THEN lastOp'.key ELSE cache[i]
         [] lastOp'.kind = "delete" ->
              /\ \A i \in 1..Len(cache') : cache'[i].id # lastOp'.key.id
              /\ \E gone \in 1..Len(cache) :
                   /\ cache[gone].id = lastOp'.key.id
                   /\ Len(cache') = Len(cache) - 1
                   /\ \A i \in 1..Len(cache') :
                        cache'[i] = IF i < gone THEN cache[i] ELSE cache[i + 1]]_vars

\* ---------------------------------------------------------------- C21
AllInputs == {"devices", "buildings", "floors"}
RecalculateStep == recalcs' = recalcs + 1

C22_GroupedOnceAllResolved ==
  /\ (resolved # AllInputs \/ failed # {}) =>
       /\ ~groupedAndSortedData.ready
       /\ groupedAndSortedData.sortedBuildingKeys = <<>>
       /\ groupedAndSortedData.groupedData = <<>>
  /\ resolved = AllInputs =>
       groupedAndSortedData = Grouping(devices, buildings, floors)

\* the three responses are there, with two devices in two buildings
C22_Witness ==
  /\ resolved = AllInputs
  /\ Len(devices) = 2
  /\ Len(buildings) = 2
  /\ Len(floors) = 1
  /\ groupedAndSortedData.ready
  /\ Len(groupedAndSortedData.sortedBuildingKeys) = 2

\* ---------------------------------------------------------------- C23
\* C23: in the device list, once the effect has initialised the expansion
\* state from a grouping and before any click, every floor group is shown
\* collapsed and every building is shown expanded.
C23_FloorsCollapsedByDefault ==
  (effect = "done" /\ toggles = 0) =>
    /\ \A pair \in FloorPairs(groupedAndSortedData) :
         ~IsFloorExpanded(expandedFloors, pair[1], pair[2])
    /\ \A i \in 1..Len(groupedAndSortedData.sortedBuildingKeys) :
         IsBuildingExpanded(expandedBuildings,
                            groupedAndSortedData.sortedBuildingKeys[i])

\* ---------------------------------------------------------------- C24
Stored(map, key) ==
  IF key \notin DOMAIN map THEN "undefined"
  ELSE IF map[key] THEN "true" ELSE "false"
Changed(before, after) ==
  {k \in DOMAIN before \cup DOMAIN after : Stored(before, k) # Stored(after, k)}
ToggleStep == toggles' = toggles + 1

\* C24: a toggle changes the stored value of exactly one key of the two
\* expansion maps, from true to false or from not true to true, and leaves
\* every other key as it was; the same toggle applied twice in a row gives
\* back the two maps as they were.
C24_ToggleFlipsOneKey ==
  [][ToggleStep =>
       /\ Cardinality(Changed(expandedBuildings, expandedBuildings')) +
          Cardinality(Changed(expandedFloors, expandedFloors')) = 1
       /\ \A k \in Changed(expandedBuildings, expandedBuildings') :
            (Stored(expandedBuildings', k) = "true") =
            (Stored(expandedBuildings, k) # "true")
       /\ \A k \in Changed(expandedFloors, expandedFloors') :
            (Stored(expandedFloors', k) = "true") =
            (Stored(expandedFloors, k) # "true")
       /\ (lastToggle.map # "none" /\ lastToggle'.map = lastToggle.map
           /\ lastToggle'.key = lastToggle.key) =>
            /\ expandedBuildings' = lastToggle.buildingsBefore
            /\ expandedFloors' = lastToggle.floorsBefore]_vars

\* the second of two clicks on the same floor header has expanded it again
C24_Witness ==
  /\ toggles = 2
  /\ effect = "done"
  /\ lastToggle.map = "floors"
  /\ lastToggle.floorsBefore[lastToggle.key] = FALSE
  /\ expandedFloors[lastToggle.key] = TRUE
  /\ Cardinality(DOMAIN expandedFloors) = 2

\* ---------------------------------------------------------------- C29
\* C29: two distinct (building, floor) pairs of the grouping never have the
\* same composite key, so a toggleFloor changes what is shown for exactly
\* one floor group.
C29_CompositeKeyIdentifiesGroup ==
  (ListShown /\ effect = "done") =>
    \A p \in FloorPairs(groupedAndSortedData) :
      /\ \A q \in FloorPairs(groupedAndSortedData) :
           p # q => FloorStateKey(p[1], p[2]) # FloorStateKey(q[1], q[2])
      /\ {q \in FloorPairs(groupedAndSortedData) :
            IsFloorExpanded(Toggled(expandedFloors, FloorStateKey(p[1], p[2])),
                            q[1], q[2])
            # IsFloorExpanded(expandedFloors, q[1], q[2])} = {p}

\* ---------------------------------------------------------------- C25
\* C25: whatever mix of 401 (and 400 where it is retried), network errors,
\* other statuses and successes the attempts meet, fetch is invoked at most
\* MAX_RETRIES + 1 = 6 times and the sixth attempt ends the loop; the loop
\* ends either by a throw, which leaves the data as it was and stores the
\* message, or by a parsed body, which is what the setter after the loop
\* stores: the setter is never reached with responseData unassigned.
C25_LoopEndsByParseOrThrow ==
  /\ [](fetchCount <= MAX_RETRIES + 1)
  /\ [][(pc = "fetching" /\ fetchCount = MAX_RETRIES + 1) => pc' = "done"]_vars
  /\ [][(pc = "fetching" /\ pc' = "done") =>
          \/ /\ thrown' # NoErr
             /\ error' = Message(thrown')
             /\ rawData' = rawData
          \/ /\ thrown' = NoErr
             /\ ~response'.network
             /\ response'.status >= 200 /\ response'.status <= 299
             /\ rawData' # Null
             /\ rawData' = ParseJson(response'.body).value]_vars

\* 401 responses and network errors have used the five retries between
\* them and the sixth attempt has delivered a body
C25_Witness ==
  /\ pc = "done"
  /\ fetchCount = 6
  /\ count401 = 2
  /\ countNetwork = 3
  /\ response.status = 200
  /\ thrown = NoErr
  /\ rawData = <<"7">>

\* ---------------------------------------------------------------- C26
HasEffect(op, keys) ==
  IF op.kind = "add" THEN \E i \in 1..Len(keys) : keys[i] = op.key
  ELSE \A i \in 1..Len(keys) : keys[i].id # op.key.id

\* C26: when two adds, or an add and a delete of another id, were started
\* from the same render and both have succeeded, the cache holds the effect
\* of both once the second response has been processed.
C26_ConcurrentOpsKeepBoth ==
  [][(/\ lastOp' # lastOp
      /\ lastOp.ok /\ lastOp'.ok
      /\ lastOp'.n # lastOp.n
      /\ lastOp'.closure = lastOp.closure
      /\ lastOp'.key.id # lastOp.key.id
      /\ {lastOp.kind, lastOp'.kind} \in {{"add"}, {"add", "delete"}})
       => (HasEffect(lastOp, cache') /\ HasEffect(lastOp', cache'))]_vars

\* ---------------------------------------------------------------- C27
\* C27: from a sign-out until the next sign-in succeeds the context holds
\* nothing of the previous principal: apiKeys is empty, userAttributes is
\* null and isAuthenticated is false, also when a sign-in or an API-key
\* operation that was started before the sign-out completes after it.
C27_NoCredentialsAfterSignOut ==
  signedOut =>
    /\ cache = <<>>
    /\ userAttributes = NoAttributes
    /\ ~isAuthenticated

\* ---------------------------------------------------------------- C30
\* C30: in the client views the tenant id put in the request URL and the API
\* key attached to the request come from one stored credential: whenever a
\* request has been sent, the credential the 'Nile' selection chose is the
\* one whose tenant id the URL carries.
C30_TenantAndKeyFromSameCredential ==
  (HasTenantEffect(site) /\ fetchCount > 0)
    => (nileApiKey # 0 /\ apiKeys[nileApiKey].tenantId = tenantId)

\* ---------------------------------------------------------------- C28
\* C28: in the paginated client view, whenever loading is false and error is
\* null the displayed clientData is the response for the current page and
\* tenant, and loading stays true while the request issued last is still in
\* flight: a response to an earlier request neither overwrites the later
\* page's data nor clears loading.
C28_DisplayedPageIsCurrent ==
  /\ (~pageLoading /\ pageError = NoMessage)
       => (clientData.tenant = pageTenantId /\ clientData.pageNumber = currentPage)
  /\ (\E r \in inFlight : r.n = requestsIssued) => pageLoading

====
